---- MODULE Spec2Model ----
(***************************************************************************)
(* Model of the record-matching and field-comparison core of the PLN       *)
(* document crosscheck (document_automation/crosscheck/crosscheck_engine.py *)
(* and document_automation/ml/text_similarity.py).                          *)
(*                                                                         *)
(* Text is a sequence of one-character strings, so that the normalisers    *)
(* are computed character by character as the regular expressions of the   *)
(* source do.  Python values are tagged records (PyNone, PyNaN, PyStr,     *)
(* PyInt, PyFloat).  Scores and percentages are fixed-point integers.      *)
(* The floats of the anomaly rules and of the deviations are IEEE-754      *)
(* doubles, sign * m * 2^e with m odd, rounded as the hardware rounds.     *)
(***************************************************************************)
EXTENDS Integers, Sequences, FiniteSets, TLC

VARIABLES
    norm_in,        \* the value handed to _normalize_numeric
    norm_out,       \* the results of the successive applications, oldest first
    sim_a,          \* first text handed to TextSimilarity.score
    sim_b,          \* second text handed to TextSimilarity.score
    sim_out,        \* the scores returned so far: score(a, b), score(b, a), score(a, a)
    pdf_fields,     \* CrosscheckEngine.pdf_fields: field key -> value
    excel_df,       \* CrosscheckEngine.excel_df: the reference rows, in order
    use_ml,         \* CrosscheckEngine.use_ml
    scorer_trained, \* ConfidenceScorer._trained of the scorer in use
    ret,            \* what the last call returned
    match_log,      \* one entry per _find_matching_row call made in a row
    trainings,      \* how often ConfidenceScorer.train() was entered in the process
    fits,           \* the state of the scorer's scaler and model
    threads         \* the position of each thread calling the scorer

normVars == <<norm_in, norm_out>>

simVars == <<sim_a, sim_b, sim_out>>

engineVars == <<pdf_fields, excel_df, use_ml, scorer_trained, ret, match_log>>

scorerVars == <<trainings, fits, threads>>

vars == <<norm_in, norm_out, sim_a, sim_b, sim_out,
          pdf_fields, excel_df, use_ml, scorer_trained, ret, match_log,
          trainings, fits, threads>>

----------------------------------------------------------------------------
(* Characters and text                                                     *)

LowerLetters ==
    <<"a","b","c","d","e","f","g","h","i","j","k","l","m",
      "n","o","p","q","r","s","t","u","v","w","x","y","z">>

UpperLetters ==
    <<"A","B","C","D","E","F","G","H","I","J","K","L","M",
      "N","O","P","Q","R","S","T","U","V","W","X","Y","Z">>

DigitChars == <<"0","1","2","3","4","5","6","7","8","9">>

\* the elements of a sequence
Range(seq) == {seq[i] : i \in 1..Len(seq)}

\* index of c in seq, 0 when absent
IndexOf(c, seq) ==
    IF \E i \in 1..Len(seq) : seq[i] = c
    THEN CHOOSE i \in 1..Len(seq) : seq[i] = c
    ELSE 0

\* str.upper(): each lower-case letter becomes its upper-case letter
py_upper(s) ==
    [i \in 1..Len(s) |-> IF s[i] \in Range(LowerLetters)
                         THEN UpperLetters[IndexOf(s[i], LowerLetters)] ELSE s[i]]

\* str.lower(): each upper-case letter becomes its lower-case letter
py_lower(s) ==
    [i \in 1..Len(s) |-> IF s[i] \in Range(UpperLetters)
                         THEN LowerLetters[IndexOf(s[i], UpperLetters)] ELSE s[i]]

\* the characters matched by \s and removed by str.strip() and float():
\* U+0009..U+000D, U+001C..U+001F, the space, U+0085 and U+00A0 (the letters
\* and digits of the model are ASCII; the Unicode spaces above U+00FF are not
\* among its characters)
IsSpace(c) ==
    c \in {" ", "\t", "\n", "\r", "\f", "", "", "", "", "", "", " "}

\* str.strip(): from the first character that is not whitespace to the last
py_strip(s) ==
    IF \A i \in 1..Len(s) : IsSpace(s[i]) THEN <<>>
    ELSE SubSeq(s, CHOOSE i \in 1..Len(s) :
                       ~IsSpace(s[i]) /\ \A j \in 1..(i - 1) : IsSpace(s[j]),
                CHOOSE i \in 1..Len(s) :
                    ~IsSpace(s[i]) /\ \A j \in (i + 1)..Len(s) : IsSpace(s[j]))

\* s without the positions in dropped
Without(s, dropped) ==
    SelectSeq([i \in 1..Len(s) |-> IF i \in dropped THEN "" ELSE s[i]], LAMBDA c : c # "")

\* re.sub(r"\s+", " ", s): the first character of a run of whitespace
\* becomes a space and the rest of the run goes
CollapseSpaces(s) ==
    Without([i \in 1..Len(s) |-> IF IsSpace(s[i]) THEN " " ELSE s[i]],
            {i \in 2..Len(s) : IsSpace(s[i]) /\ IsSpace(s[i - 1])})

\* a in b for Python strings
IsSubstring(a, b) ==
    \E i \in 0..(Len(b) - Len(a)) : SubSeq(b, i + 1, i + Len(a)) = a

----------------------------------------------------------------------------
(* Python values                                                           *)

PyNone == [t |-> "None", s |-> <<>>, n |-> 0]

PyNaN == [t |-> "nan", s |-> <<>>, n |-> 0]

PyStr(s) == [t |-> "str", s |-> s, n |-> 0]

PyInt(n) == [t |-> "int", s |-> <<>>, n |-> n]

\* a float holding the whole number n (a numeric cell of a column with blanks)
PyFloat(n) == [t |-> "float", s |-> <<>>, n |-> n]

RECURSIVE NatDigits(_)
NatDigits(n) ==
    IF n < 10 THEN <<DigitChars[n + 1]>>
    ELSE NatDigits(n \div 10) \o <<DigitChars[(n % 10) + 1]>>

IntDigits(n) == IF n < 0 THEN <<"-">> \o NatDigits(-n) ELSE NatDigits(n)

\* str(value)
py_str(v) ==
    CASE v.t = "None"  -> <<"N","o","n","e">>
      [] v.t = "nan"   -> <<"n","a","n">>
      [] v.t = "str"   -> v.s
      [] v.t = "int"   -> IntDigits(v.n)
      [] v.t = "float" -> IntDigits(v.n) \o <<".","0">>

\* bool(value)
py_truthy(v) ==
    CASE v.t = "None"  -> FALSE
      [] v.t = "nan"   -> TRUE
      [] v.t = "str"   -> v.s # <<>>
      [] v.t = "int"   -> v.n # 0
      [] v.t = "float" -> v.n # 0

\* dict.get(key, default) and Series.get(column, default)
py_get(d, k, default) == IF k \in DOMAIN d THEN d[k] ELSE default

EmptyStr == PyStr(<<>>)

----------------------------------------------------------------------------
(* Field normaliser                                                         *)

\* a float NaN is the value of type "nan"
_normalize(value) ==
    IF value.t = "None" \/ value.t = "nan" THEN <<>>
    ELSE CollapseSpaces(py_upper(py_strip(py_str(value))))

\* re.sub(r"[Rr][Pp]\.?\s*", "", s).  A match begins at every R followed by
\* P (no match can begin inside another) and takes the dot and the
\* whitespace that follow.
StripRp(s) ==
    LET Begins(j) == j >= 1 /\ j < Len(s) /\ s[j] \in {"R", "r"} /\ s[j + 1] \in {"P", "p"}
        Trails(j, i) ==
            \A k \in (j + 2)..i : IsSpace(s[k]) \/ (k = j + 2 /\ s[k] = ".")
    IN  Without(s, {i \in 1..Len(s) : \/ Begins(i) \/ Begins(i - 1)
                                        \/ \E j \in 1..(i - 2) : Begins(j) /\ Trails(j, i)})

\* re.sub(r"[.,\s]", "", s) of the text without its Rp prefixes
_normalize_numeric(value) ==
    SelectSeq(StripRp(_normalize(value)), LAMBDA c : ~(c \in {".", ","} \/ IsSpace(c)))

----------------------------------------------------------------------------
(* Natural numbers beyond 32-bit integers: little-endian sequences of       *)
(* limbs of 15 bits, for the exact rounding of the cosine similarity and    *)
(* for the mantissas of floats.                                             *)

LimbBase == 32768

RECURSIVE BigOf(_)
BigOf(n) == IF n = 0 THEN <<>> ELSE <<n % LimbBase>> \o BigOf(n \div LimbBase)

\* a without the zero limbs at its top
BigTrim(a) ==
    IF a = <<>> \/ a[Len(a)] # 0 THEN a
    ELSE IF \A i \in 1..Len(a) : a[i] = 0 THEN <<>>
    ELSE SubSeq(a, 1, CHOOSE i \in 1..Len(a) : a[i] # 0 /\ \A j \in (i + 1)..Len(a) : a[j] = 0)

\* The number whose limbs are the sums s, each below 2 * LimbBase - 1, plus a
\* carry c of 0 or 1 into the lowest.  Limb i receives the carry of the
\* nearest limb below it whose sum is not LimbBase - 1 (such a sum passes a
\* carry on), and c when there is none.
BigCarry(s, c) ==
    LET Carry(i) ==
            IF i = 1 THEN c
            ELSE IF s[i - 1] # LimbBase - 1 THEN s[i - 1] \div LimbBase
            ELSE IF \A d \in 1..(i - 1) : s[i - d] = LimbBase - 1 THEN c
            ELSE s[i - (CHOOSE d \in 1..(i - 1) :
                            /\ s[i - d] # LimbBase - 1
                            /\ \A k \in 1..(d - 1) : s[i - k] = LimbBase - 1)] \div LimbBase
    IN  BigTrim([i \in 1..Len(s) |-> (s[i] + Carry(i)) % LimbBase])

\* a + b + c, c a carry of 0 or 1
BigAddCarry(a, b, c) ==
    BigCarry([i \in 1..((IF Len(a) > Len(b) THEN Len(a) ELSE Len(b)) + 1) |->
                (IF i <= Len(a) THEN a[i] ELSE 0) + (IF i <= Len(b) THEN b[i] ELSE 0)], c)

\* a - b for a >= b.  Limb i lends to the nearest limb below it in which a
\* and b differ, when a is the smaller there.
BigSub(a, b) ==
    LET Sub(i) == IF i <= Len(b) THEN b[i] ELSE 0
        Borrow(i) ==
            IF \A d \in 1..(i - 1) : a[i - d] = Sub(i - d) THEN 0
            ELSE LET j == i - (CHOOSE d \in 1..(i - 1) :
                                  /\ a[i - d] # Sub(i - d)
                                  /\ \A k \in 1..(d - 1) : a[i - k] = Sub(i - k))
                 IN  IF a[j] < Sub(j) THEN 1 ELSE 0
    IN  BigTrim([i \in 1..Len(a) |-> (a[i] - Sub(i) - Borrow(i) + LimbBase) % LimbBase])

\* a times a single limb m < LimbBase: the low halves of the limb products
\* plus their high halves one limb up
BigMulLimb(a, m) ==
    BigCarry([i \in 1..(Len(a) + 1) |->
                (IF i <= Len(a) THEN (a[i] * m) % LimbBase ELSE 0)
                + (IF i > 1 THEN (a[i - 1] * m) \div LimbBase ELSE 0)], 0)

\* a * b, by halves of b
RECURSIVE BigMul(_, _)
BigMul(a, b) ==
    IF a = <<>> \/ b = <<>> THEN <<>>
    ELSE IF Len(b) = 1 THEN BigMulLimb(a, b[1])
    ELSE BigAddCarry(BigMul(a, BigTrim(SubSeq(b, 1, Len(b) \div 2))),
                     [i \in 1..(Len(b) \div 2) |-> 0]
                         \o BigMul(a, SubSeq(b, (Len(b) \div 2) + 1, Len(b))), 0)

\* a <= b for trimmed a and b: the most significant limb in which they
\* differ decides
BigLeq(a, b) ==
    IF Len(a) # Len(b) THEN Len(a) < Len(b)
    ELSE \A d \in 0..(Len(a) - 1) :
             (/\ a[Len(a) - d] # b[Len(a) - d]
              /\ \A k \in 0..(d - 1) : a[Len(a) - k] = b[Len(a) - k])
                 => a[Len(a) - d] < b[Len(a) - d]

\* the number of bits of a trimmed a: 15 to a limb
BigBitLen(a) ==
    IF a = <<>> THEN 0
    ELSE 15 * (Len(a) - 1) + (CHOOSE b \in 1..15 : 2^(b - 1) <= a[Len(a)] /\ a[Len(a)] < 2^b)

\* a * 2^n
BigShl(a, n) ==
    IF a = <<>> THEN <<>>
    ELSE [i \in 1..(n \div 15) |-> 0] \o BigMulLimb(a, 2^(n % 15))

\* a \div 2^n
BigShr(a, n) ==
    LET Shifted(w, b) ==
            BigTrim([i \in 1..(Len(a) - w) |->
                        (a[i + w] \div (2^b))
                        + (IF i + w < Len(a) THEN (a[i + w + 1] % (2^b)) * (2^(15 - b)) ELSE 0)])
    IN  IF n \div 15 >= Len(a) THEN <<>> ELSE Shifted(n \div 15, n % 15)

\* The quotient of a long division by V, whose top limb is at least
\* LimbBase / 2, with one more bit below it that is set when a remainder is
\* left.  R is the remainder of the limbs of U above i and Q the quotient
\* limbs found.  The limb estimated from the top limbs of the remainder and
\* of V is at most two above the true one.
RECURSIVE BigQuot(_, _, _, _, _)
BigQuot(U, i, V, R, Q) ==
    LET R1 == BigTrim(<<U[i]>> \o R)
        top == (IF Len(R1) > Len(V) THEN R1[Len(V) + 1] * LimbBase ELSE 0) + R1[Len(V)]
        est == IF top \div V[Len(V)] >= LimbBase THEN LimbBase - 1 ELSE top \div V[Len(V)]
        q == IF Len(R1) < Len(V) THEN 0
             ELSE IF BigLeq(BigMulLimb(V, est), R1) THEN est
             ELSE IF BigLeq(BigMulLimb(V, est - 1), R1) THEN est - 1
             ELSE est - 2
    IN  IF i = 0 THEN BigAddCarry(BigShl(BigTrim(Q), 1), <<>>, IF R # <<>> THEN 1 ELSE 0)
        ELSE BigQuot(U, i - 1, V, BigSub(R1, BigMulLimb(V, q)), <<q>> \o Q)

\* num \div den for den > 0: both are shifted until den has a full top limb
BigDiv(num, den) ==
    LET Divide(U, V) ==
            IF Len(U) < Len(V) THEN <<>>
            ELSE BigShr(BigQuot(U, Len(U) - Len(V) + 1, V,
                                SubSeq(U, Len(U) - Len(V) + 2, Len(U)), <<>>), 1)
    IN  Divide(BigShl(num, (15 - (BigBitLen(den) % 15)) % 15),
               BigShl(den, (15 - (BigBitLen(den) % 15)) % 15))

\* 5^n, by squaring
RECURSIVE BigPow5(_)
BigPow5(n) ==
    LET Squared(h) == BigMul(BigMul(h, h), <<5^(n % 2)>>)
    IN  IF n < 7 THEN <<5^n>> ELSE Squared(BigPow5(n \div 2))

----------------------------------------------------------------------------
(* Text similarity scorer (ml/text_similarity.py)                           *)

IsWordChar(c) ==
    c \in Range(LowerLetters) \cup Range(UpperLetters) \cup Range(DigitChars) \cup {"_"}

\* ADDRESS_ABBREVIATIONS, in dictionary order: <<abbreviation, expansion>>
ADDRESS_ABBREVIATIONS ==
    << << <<"j","l">>,                 <<"j","a","l","a","n">> >>,
       << <<"g","g">>,                 <<"g","a","n","g">> >>,
       << <<"r","t">>,                 <<"r","t">> >>,
       << <<"r","w">>,                 <<"r","w">> >>,
       << <<"k","e","l">>,             <<"k","e","l","u","r","a","h","a","n">> >>,
       << <<"k","e","c">>,             <<"k","e","c","a","m","a","t","a","n">> >>,
       << <<"k","a","b">>,             <<"k","a","b","u","p","a","t","e","n">> >>,
       << <<"n","o">>,                 <<"n","o","m","o","r">> >>,
       << <<"b","l","k">>,             <<"b","l","o","k">> >>,
       << <<"j","k","t">>,             <<"j","a","k","a","r","t","a">> >>,
       << <<"t","m","r">>,             <<"t","i","m","u","r">> >>,
       << <<"b","r","t">>,             <<"b","a","r","a","t">> >>,
       << <<"s","l","t">>,             <<"s","e","l","a","t","a","n">> >>,
       << <<"u","t","r">>,             <<"u","t","a","r","a">> >>,
       << <<"d","s">>,                 <<"d","e","s","a">> >>,
       << <<"p","e","r","u","m">>,     <<"p","e","r","u","m","a","h","a","n">> >>,
       << <<"k","o","m","p">>,         <<"k","o","m","p","l","e","k","s">> >> >>

\* re.sub(r"\b<abbr>\.?\b", rep, s) scanning s from position i
RECURSIVE AbbrevSubFrom(_, _, _, _)
AbbrevSubFrom(s, i, abbr, rep) ==
    IF i > Len(s) THEN <<>>
    ELSE LET j == i + Len(abbr)
             atWordStart == i = 1 \/ ~IsWordChar(s[i - 1])
             literal == /\ s[i] = abbr[1]
                        /\ j - 1 <= Len(s)
                        /\ SubSeq(s, i, j - 1) = abbr
             \* "\.?" takes the dot only if a word boundary follows it
             withDot == /\ j + 1 <= Len(s)
                        /\ s[j] = "."
                        /\ IsWordChar(s[j + 1])
             noDot == j > Len(s) \/ ~IsWordChar(s[j])
         IN  IF literal /\ atWordStart /\ withDot
             THEN rep \o AbbrevSubFrom(s, j + 1, abbr, rep)
             ELSE IF literal /\ atWordStart /\ noDot
             THEN rep \o AbbrevSubFrom(s, j, abbr, rep)
             ELSE <<s[i]>> \o AbbrevSubFrom(s, i + 1, abbr, rep)

\* the loop over ADDRESS_ABBREVIATIONS, entries k..17; a pattern whose
\* letters do not occur in s leaves s as it is
RECURSIVE ExpandAbbreviations(_, _)
ExpandAbbreviations(s, k) ==
    IF k > Len(ADDRESS_ABBREVIATIONS) THEN s
    ELSE IF ~IsSubstring(ADDRESS_ABBREVIATIONS[k][1], s)
    THEN ExpandAbbreviations(s, k + 1)
    ELSE ExpandAbbreviations(
             AbbrevSubFrom(s, 1, ADDRESS_ABBREVIATIONS[k][1], ADDRESS_ABBREVIATIONS[k][2]),
             k + 1)

IsPunct(c) == c \in {",", ".", "-", "/", "\\"}

RECURSIVE DropPunct(_)
DropPunct(s) == IF s # <<>> /\ IsPunct(s[1]) THEN DropPunct(Tail(s)) ELSE s

\* re.sub(r"[,\.\-\/\\]+", " ", s)
RECURSIVE PunctToSpace(_)
PunctToSpace(s) ==
    IF s = <<>> THEN <<>>
    ELSE IF IsPunct(s[1]) THEN <<" ">> \o PunctToSpace(DropPunct(s))
    ELSE <<s[1]>> \o PunctToSpace(Tail(s))

_normalize_text(text) ==
    IF ~py_truthy(text) THEN <<>>
    ELSE py_strip(CollapseSpaces(PunctToSpace(
             ExpandAbbreviations(py_strip(py_lower(py_str(text))), 1))))

\* str.split(): the maximal runs of non-space characters
RECURSIVE SplitWords(_, _)
SplitWords(s, word) ==
    IF s = <<>> THEN (IF word = <<>> THEN <<>> ELSE <<word>>)
    ELSE IF IsSpace(s[1])
    THEN (IF word = <<>> THEN <<>> ELSE <<word>>) \o SplitWords(Tail(s), <<>>)
    ELSE SplitWords(Tail(s), Append(word, s[1]))

\* every substring of length n of w, left to right
SubstringsOfLen(w, n) == [i \in 1..(Len(w) - n + 1) |-> SubSeq(w, i, i + n - 1)]

NgramMin == 2

NgramMax == 4

\* the character n-grams of one space-padded word, n = NgramMin..NgramMax
RECURSIVE WordNgramsFrom(_, _)
WordNgramsFrom(padded, n) ==
    IF n > NgramMax \/ n > Len(padded) THEN <<>>
    ELSE SubstringsOfLen(padded, n) \o WordNgramsFrom(padded, n + 1)

\* analyzer "char_wb": the n-grams of every word of the text
RECURSIVE CharWbNgrams(_)
CharWbNgrams(words) ==
    IF words = <<>> THEN <<>>
    ELSE WordNgramsFrom(<<" ">> \o words[1] \o <<" ">>, NgramMin)
             \o CharWbNgrams(Tail(words))

CountIn(g, grams) == Cardinality({i \in 1..Len(grams) : grams[i] = g})

RECURSIVE SumSeq(_)
SumSeq(q) == IF q = <<>> THEN 0 ELSE q[1] + SumSeq(Tail(q))

\* sum over the n-grams both texts have of count_a * count_b
SharedDot(A, B) == SumSeq([i \in 1..Len(A) |-> CountIn(A[i], B)])

\* sum of count^2 over the n-grams of A that B has too (df = 2, idf = 1)
SharedSquares(A, B) ==
    SumSeq([i \in 1..Len(A) |-> IF CountIn(A[i], B) > 0 THEN CountIn(A[i], A) ELSE 0])

\* sum of count^2 over the n-grams only A has (df = 1, idf = 1 + ln(3/2))
OwnSquares(A, B) ==
    SumSeq([i \in 1..Len(A) |-> IF CountIn(A[i], B) = 0 THEN CountIn(A[i], A) ELSE 0])

\* round(x, 4): scores are integers in units of 0.0001
ScoreScale == 10000

\* (1 + ln(3/2))^2 = 1.97533217..., the squared smoothed idf of an n-gram that
\* one of the two texts has, as IdfSqNum / IdfSqDen
IdfSqNum == 197533217

IdfSqDen == 100000000

\* the squared tf-idf norm of A against B, times IdfSqDen
NormSq(A, B) ==
    BigAddCarry(BigMul(BigOf(IdfSqDen), BigOf(SharedSquares(A, B))),
                BigMul(BigOf(IdfSqNum), BigOf(OwnSquares(A, B))), 0)

\* the largest r in lo..hi with (2r - 1)^2 <= q, that is with r - 1/2 no more
\* than the square root of q: bisection
RECURSIVE RoundedRoot(_, _, _)
RoundedRoot(lo, hi, q) ==
    IF lo >= hi THEN lo
    ELSE LET mid == (lo + hi + 1) \div 2
         IN  IF BigLeq(BigOf((2 * mid - 1) * (2 * mid - 1)), q)
             THEN RoundedRoot(mid, hi, q)
             ELSE RoundedRoot(lo, mid - 1, q)

\* a variant of CosineScaled that divides by the first row's norm twice
CosineScaledOneSided(A, B) ==
    LET dot == SharedDot(A, B)
        num == BigMul(BigMul(BigOf(4 * ScoreScale * ScoreScale), BigOf(dot * dot)),
                      BigMul(BigOf(IdfSqDen), BigOf(IdfSqDen)))
        den == BigMul(NormSq(A, B), NormSq(A, B))
    IN  IF dot = 0 THEN 0 ELSE RoundedRoot(0, ScoreScale, BigDiv(num, den))

\* cosine_similarity of the two tf-idf rows, rounded to four decimals
CosineScaled(A, B) ==
    LET dot == SharedDot(A, B)
        num == BigMul(BigMul(BigOf(4 * ScoreScale * ScoreScale), BigOf(dot * dot)),
                      BigMul(BigOf(IdfSqDen), BigOf(IdfSqDen)))
        den == BigMul(NormSq(A, B), NormSq(B, A))
    IN  IF dot = 0 THEN 0 ELSE RoundedRoot(0, ScoreScale, BigDiv(num, den))

\* TextSimilarity.score once a and b hold the two normalised texts
ScoreNormalized(a, b) ==
    IF a = <<>> \/ b = <<>> THEN 0
    ELSE IF a = b THEN ScoreScale
    ELSE CosineScaled(CharWbNgrams(SplitWords(a, <<>>)),
                      CharWbNgrams(SplitWords(b, <<>>)))

\* TextSimilarity.score(text_a, text_b), in units of 0.0001
score(text_a, text_b) ==
    ScoreNormalized(_normalize_text(text_a), _normalize_text(text_b))

classify_match(sc) ==
    IF sc >= 9500 THEN "EXACT"
    ELSE IF sc >= 8000 THEN "HIGH"
    ELSE IF sc >= 6000 THEN "MEDIUM"
    ELSE IF sc >= 4000 THEN "LOW"
    ELSE "NO_MATCH"

----------------------------------------------------------------------------
(* Anomaly rule engine (ml/anomaly_detector.py)                             *)

\* str.replace(pat, "") for a pattern none of whose proper prefixes is a
\* suffix of it, as all the patterns removed are: two occurrences cannot
\* overlap, and every character of every occurrence goes
RemoveAll(s, pat) ==
    Without(s, {i \in 1..Len(s) : \E j \in (i - Len(pat) + 1)..i :
                                        j >= 1 /\ j + Len(pat) - 1 <= Len(s)
                                               /\ SubSeq(s, j, j + Len(pat) - 1) = pat})

RECURSIVE DigitsValue(_, _)
DigitsValue(s, acc) ==
    IF s = <<>> THEN acc
    ELSE DigitsValue(Tail(s), 10 * acc + (IndexOf(s[1], DigitChars) - 1))

\* the number a run of decimal digits writes, by halves: the upper half
\* times 10^h = 5^h * 2^h, plus the h lower digits
RECURSIVE BigDigits(_)
BigDigits(s) ==
    IF Len(s) <= 8 THEN BigOf(DigitsValue(s, 0))
    ELSE BigAddCarry(BigShl(BigMul(BigDigits(SubSeq(s, 1, Len(s) - (Len(s) \div 2))),
                                   BigPow5(Len(s) \div 2)),
                            Len(s) \div 2),
                     BigDigits(SubSeq(s, Len(s) - (Len(s) \div 2) + 1, Len(s))), 0)

\* digit (["_"] digit)*: the digit runs float() accepts
IsDigitPart(s) ==
    /\ s # <<>>
    /\ \A i \in 1..Len(s) : s[i] \in Range(DigitChars) \/ s[i] = "_"
    /\ s[1] # "_" /\ s[Len(s)] # "_"
    /\ \A i \in 1..(Len(s) - 1) : ~(s[i] = "_" /\ s[i + 1] = "_")

\* A Python float is an IEEE 754 double: nan, an infinity of sign s, or the
\* finite number s * m * 2^e, m a natural number in limbs that is odd, or
\* empty with e = 0 for the zero of sign s.  ok = FALSE is the absence of a
\* float (None, or an exception raised).
NoFloat == [ok |-> FALSE, k |-> "none", s |-> 1, m |-> <<>>, e |-> 0]

FloatNaN == [ok |-> TRUE, k |-> "nan", s |-> 1, m |-> <<>>, e |-> 0]

FloatInf(sign) == [ok |-> TRUE, k |-> "inf", s |-> sign, m |-> <<>>, e |-> 0]

FloatZero(sign) == [ok |-> TRUE, k |-> "fin", s |-> sign, m |-> <<>>, e |-> 0]

\* The finite float sign * M * 2^x in its one form: the zero of the sign, an
\* infinity from 2^1024 on, or the odd mantissa left when the tz zero bits
\* at the low end of M go into the exponent
FloatFin(sign, M, x) ==
    LET low == CHOOSE i \in 1..Len(M) : M[i] # 0 /\ \A j \in 1..(i - 1) : M[j] = 0
        tz == 15 * (low - 1)
              + (CHOOSE t \in 0..14 : M[low] % (2^t) = 0 /\ M[low] % (2^(t + 1)) # 0)
    IN  IF M = <<>> THEN FloatZero(sign)
        ELSE IF BigBitLen(M) + x > 1024 THEN FloatInf(sign)
        ELSE [ok |-> TRUE, k |-> "fin", s |-> sign, m |-> BigShr(M, tz), e |-> x + tz]

\* Q \div 2^drop rounded to nearest, a tie to even: one more when the highest
\* bit dropped is set and either a lower bit is set or the quotient is odd
BigRound(Q, drop) ==
    LET Up(hi, half) ==
            IF /\ half[1] % 2 = 1
               /\ BigShl(half, drop - 1) # Q \/ (hi # <<>> /\ hi[1] % 2 = 1)
            THEN BigAddCarry(hi, <<>>, 1) ELSE hi
    IN  IF drop <= 0 THEN Q
        ELSE IF drop > BigBitLen(Q) THEN <<>>
        ELSE Up(BigShr(Q, drop), BigShr(Q, drop - 1))

\* The double nearest to sign * Q * 2^e: 53 significant bits, the lowest
\* worth no less than 2^-1074, ties to the even mantissa
Double(sign, Q, e) ==
    LET drop == IF BigBitLen(Q) + e - 53 > -1074 THEN BigBitLen(Q) - 53 ELSE -1074 - e
    IN  FloatFin(sign, BigRound(Q, drop), IF drop > 0 THEN e + drop ELSE e)

\* float(n) of an integer
FloatOf(n) == Double(IF n < 0 THEN -1 ELSE 1, BigOf(IF n < 0 THEN -n ELSE n), 0)

\* a + b on floats: the mantissas are brought to the lower exponent and
\* added or subtracted exactly, then rounded; equal magnitudes of opposite
\* sign give +0.0
FloatAdd(a, b) ==
    LET Sum(A, B, x) ==
            Double(IF a.s = b.s \/ ~BigLeq(A, B) THEN a.s ELSE IF A = B THEN 1 ELSE b.s,
                   IF a.s = b.s THEN BigAddCarry(A, B, 0)
                   ELSE IF BigLeq(A, B) THEN BigSub(B, A) ELSE BigSub(A, B),
                   x)
    IN  IF a.k = "nan" \/ b.k = "nan" THEN FloatNaN
        ELSE IF a.k = "inf" THEN IF b.k = "inf" /\ b.s # a.s THEN FloatNaN ELSE a
        ELSE IF b.k = "inf" THEN b
        ELSE IF a.m = <<>> /\ b.m = <<>> THEN FloatZero(IF a.s = -1 /\ b.s = -1 THEN -1 ELSE 1)
        ELSE IF a.m = <<>> THEN b
        ELSE IF b.m = <<>> THEN a
        ELSE Sum(BigShl(a.m, IF a.e < b.e THEN 0 ELSE a.e - b.e),
                 BigShl(b.m, IF a.e < b.e THEN b.e - a.e ELSE 0),
                 IF a.e < b.e THEN a.e ELSE b.e)

\* a - b on floats
FloatSub(a, b) == FloatAdd(a, IF b.k = "nan" THEN b ELSE [b EXCEPT !.s = -@])

\* a * b on floats
FloatMul(a, b) ==
    IF a.k = "nan" \/ b.k = "nan" THEN FloatNaN
    ELSE IF a.k = "inf" \/ b.k = "inf"
    THEN IF (a.k = "fin" /\ a.m = <<>>) \/ (b.k = "fin" /\ b.m = <<>>) THEN FloatNaN
         ELSE FloatInf(a.s * b.s)
    ELSE Double(a.s * b.s, BigMul(a.m, b.m), a.e + b.e)

\* The double nearest to sign * (N / D) * 2^e for N > 0 and D > 0.  N or D is
\* shifted until N has 55 bits more than D, and both until D has a full top
\* limb; the quotient then has 55 bits or more, and the bit below it tells
\* the rounding whether it is exact.  The division starts at limb i of U,
\* with the limbs above it, one fewer than V has, for remainder.
FloatQuot(sign, N, D, e) ==
    LET k == 55 + BigBitLen(D) - BigBitLen(N)
        up == IF k > 0 THEN k ELSE 0
        down == IF k < 0 THEN -k ELSE 0
        n == (15 - ((BigBitLen(D) + down) % 15)) % 15
        i == ((BigBitLen(N) + up + n + 14) \div 15) - ((BigBitLen(D) + down + n) \div 15) + 1
        Divide(U) == BigQuot(U, i, BigShl(D, down + n), SubSeq(U, i + 1, Len(U)), <<>>)
    IN  Double(sign, Divide(BigShl(N, up + n)), e - k - 1)

\* a / b on floats; a zero divisor raises ZeroDivisionError
FloatDiv(a, b) ==
    IF b.k = "fin" /\ b.m = <<>> THEN NoFloat
    ELSE IF a.k = "nan" \/ b.k = "nan" THEN FloatNaN
    ELSE IF a.k = "inf" THEN IF b.k = "inf" THEN FloatNaN ELSE FloatInf(a.s * b.s)
    ELSE IF b.k = "inf" THEN FloatZero(a.s * b.s)
    ELSE IF a.m = <<>> THEN FloatZero(a.s * b.s)
    ELSE FloatQuot(a.s * b.s, a.m, b.m, a.e - b.e)

\* a < b on floats: every comparison with nan is false, the zeros are equal,
\* and of two finite numbers of one sign the mantissas at the lower exponent
\* decide
FloatLess(a, b) ==
    LET Below(x, y) ==
            IF BigBitLen(x.m) + x.e # BigBitLen(y.m) + y.e
            THEN BigBitLen(x.m) + x.e < BigBitLen(y.m) + y.e
            ELSE ~BigLeq(BigShl(y.m, IF x.e < y.e THEN y.e - x.e ELSE 0),
                         BigShl(x.m, IF x.e < y.e THEN 0 ELSE x.e - y.e))
    IN  IF a.k = "nan" \/ b.k = "nan" THEN FALSE
        ELSE IF a.k = "inf" THEN a.s < 0 /\ ~(b.k = "inf" /\ b.s < 0)
        ELSE IF b.k = "inf" THEN b.s > 0
        ELSE IF a.m = <<>> THEN b.m # <<>> /\ b.s > 0
        ELSE IF b.m = <<>> THEN a.s < 0
        ELSE IF a.s # b.s THEN a.s < b.s
        ELSE Below(IF a.s > 0 THEN a ELSE b, IF a.s > 0 THEN b ELSE a)

\* The float a parsed text w writes.  A decimal is sign * m * 10^e
\* = sign * m * 5^e * 2^e for its digits m > 0, ndigits of them, and the float
\* is the double nearest to it: from 1e309 on an infinity, below 1e-324 a zero.
FloatOfDecimal(w) ==
    CASE w.k = "error" -> NoFloat
      [] w.k = "nan" -> FloatNaN
      [] w.k = "inf" -> FloatInf(w.sign)
      [] w.k = "zero" -> FloatZero(w.sign)
      [] w.k = "decimal" ->
            IF w.ndigits + w.e > 309 THEN FloatInf(w.sign)
            ELSE IF w.ndigits + w.e < -323 THEN FloatZero(w.sign)
            ELSE IF w.e >= 0 THEN Double(w.sign, BigMul(BigDigits(w.m), BigPow5(w.e)), w.e)
            ELSE FloatQuot(w.sign, BigDigits(w.m), BigPow5(-w.e), w.e)

\* float(s) of a text: surrounding whitespace is dropped (U+001C..U+001F are
\* whitespace to str.strip() and not to float()), then an optional sign and
\* inf, infinity or nan in any case, or a decimal number with an optional
\* fraction and exponent; any other text raises ValueError.  The number
\* written is m * 10^e for the digits m without the zeros at either end, and
\* the float is the double nearest to it.  (A text is taken to have fewer
\* than ten million characters.)
py_float(s) ==
    LET Significant(ds) ==
            IF \A i \in 1..Len(ds) : ds[i] = "0" THEN <<>>
            ELSE SubSeq(ds, CHOOSE i \in 1..Len(ds) :
                                /\ ds[i] # "0"
                                /\ \A j \in 1..(i - 1) : ds[j] = "0",
                        Len(ds))
        Written(k, sign, m, e, ndigits) ==
            [k |-> k, sign |-> sign, m |-> m, e |-> e, ndigits |-> ndigits]
        \* the digits up to the last that is not 0; the zeros after it go into
        \* the exponent
        Valued(sign, digits, last, fraclen, esign, edigits) ==
            IF digits = <<>> THEN Written("zero", sign, <<>>, 0, 0)
            ELSE Written("decimal", sign, SubSeq(digits, 1, last),
                         esign * (IF Len(edigits) > 7 THEN 10000000
                                  ELSE DigitsValue(edigits, 0))
                             - fraclen + (Len(digits) - last),
                         last)
        Parts(sign, intp, fracp, hasExp, esign, ebody, digits) ==
            IF /\ intp # <<>> \/ fracp # <<>>
               /\ intp = <<>> \/ IsDigitPart(intp)
               /\ fracp = <<>> \/ IsDigitPart(fracp)
               /\ ~hasExp \/ IsDigitPart(ebody)
            THEN Valued(sign, digits,
                        IF digits = <<>> THEN 0
                        ELSE CHOOSE i \in 1..Len(digits) :
                                 /\ digits[i] # "0"
                                 /\ \A j \in (i + 1)..Len(digits) : digits[j] = "0",
                        Len(SelectSeq(fracp, LAMBDA c : c # "_")),
                        esign,
                        Significant(SelectSeq(ebody, LAMBDA c : c # "_")))
            ELSE Written("error", sign, <<>>, 0, 0)
        Number(sign, mant, dot, hasExp, expt) ==
            Parts(sign,
                  IF dot = 0 THEN mant ELSE SubSeq(mant, 1, dot - 1),
                  IF dot = 0 THEN <<>> ELSE SubSeq(mant, dot + 1, Len(mant)),
                  hasExp,
                  IF expt # <<>> /\ expt[1] = "-" THEN -1 ELSE 1,
                  IF expt # <<>> /\ expt[1] \in {"-", "+"} THEN Tail(expt) ELSE expt,
                  Significant(SelectSeq(mant, LAMBDA c : c \notin {"_", "."})))
        Unsigned(sign, body, epos) ==
            IF body \in {<<"i","n","f">>, <<"i","n","f","i","n","i","t","y">>}
            THEN Written("inf", sign, <<>>, 0, 0)
            ELSE IF body = <<"n","a","n">> THEN Written("nan", sign, <<>>, 0, 0)
            ELSE Number(sign,
                        IF epos = 0 THEN body ELSE SubSeq(body, 1, epos - 1),
                        IndexOf(".", IF epos = 0 THEN body ELSE SubSeq(body, 1, epos - 1)),
                        epos # 0,
                        IF epos = 0 THEN <<>> ELSE SubSeq(body, epos + 1, Len(body)))
        Signed(t) ==
            Unsigned(IF t # <<>> /\ t[1] = "-" THEN -1 ELSE 1,
                     IF t # <<>> /\ t[1] \in {"-", "+"} THEN Tail(t) ELSE t,
                     IndexOf("e", IF t # <<>> /\ t[1] \in {"-", "+"} THEN Tail(t) ELSE t))
        Stripped(kept) ==
            IF kept = {} THEN <<>>
            ELSE SubSeq(s, CHOOSE i \in kept : \A j \in kept : i <= j,
                        CHOOSE i \in kept : \A j \in kept : j <= i)
    IN  FloatOfDecimal(Signed(py_lower(Stripped({i \in 1..Len(s) :
                   ~IsSpace(s[i]) \/ s[i] \in {"", "", "", ""}}))))

\* AnomalyDetector._to_float: ok = FALSE stands for the result None
_to_float(value) ==
    IF value.t = "None" THEN NoFloat
    ELSE LET s0 == py_strip(py_str(value))
             s1 == RemoveAll(RemoveAll(RemoveAll(s0, <<",">>), <<".">>), <<" ">>)
             s2 == RemoveAll(RemoveAll(s1, <<"R","p">>), <<"r","p">>)
             s3 == RemoveAll(RemoveAll(s2, <<"k","W","h">>), <<"k","w","h">>)
         IN  py_float(s3)

_normalize_tarif(tarif) ==
    LET t0 == py_upper(py_strip(tarif))
        spaceless == RemoveAll(t0, <<" ">>)
        t1 == [i \in 1..Len(spaceless) |-> IF spaceless[i] = "-" THEN "/" ELSE spaceless[i]]
        t2 == RemoveAll(RemoveAll(t1, <<"V","A">>), <<"W">>)
        s  == py_strip(t2)
    IN  \* s.rstrip("/")
        IF \A i \in 1..Len(s) : s[i] = "/" THEN <<>>
        ELSE SubSeq(s, 1, CHOOSE i \in 1..Len(s) :
                              s[i] # "/" /\ \A j \in (i + 1)..Len(s) : s[j] = "/")

\* TARIFF_CONSUMPTION_RANGES and TARIFF_RATE_APPROX, one record per tariff
TARIFF_TABLE ==
    << [key |-> <<"R","1","/","4","5","0">>,     low |-> 20,  high |-> 150,  rate |-> 415],
       [key |-> <<"R","1","/","9","0","0">>,     low |-> 50,  high |-> 300,  rate |-> 605],
       [key |-> <<"R","1","M","/","9","0","0">>, low |-> 50,  high |-> 300,  rate |-> 1352],
       [key |-> <<"R","1","/","1","3","0","0">>, low |-> 80,  high |-> 500,  rate |-> 1444],
       [key |-> <<"R","1","/","2","2","0","0">>, low |-> 100, high |-> 800,  rate |-> 1444],
       [key |-> <<"R","2","/","3","5","0","0">>, low |-> 150, high |-> 1500, rate |-> 1699],
       [key |-> <<"R","2","/","5","5","0","0">>, low |-> 200, high |-> 2500, rate |-> 1699],
       [key |-> <<"R","3","/","6","6","0","0">>, low |-> 300, high |-> 5000, rate |-> 1699],
       [key |-> <<"B","1","/","1","3","0","0">>, low |-> 100, high |-> 1000, rate |-> 1444],
       [key |-> <<"B","1","/","2","2","0","0">>, low |-> 150, high |-> 1500, rate |-> 1444],
       [key |-> <<"B","2","/","6","6","0","0">>, low |-> 300, high |-> 5000, rate |-> 1444] >>

\* a variant of TariffIndex that recognises no tariff
TariffIndexUnknown(key) == 0

\* index of the tariff key in the tables, 0 when it is not a key
TariffIndex(key) ==
    IF \E i \in 1..Len(TARIFF_TABLE) : TARIFF_TABLE[i].key = key
    THEN CHOOSE i \in 1..Len(TARIFF_TABLE) : TARIFF_TABLE[i].key = key
    ELSE 0

\* The float literals of the rules and of the deviations: 0.5, 1.5 and 1.0
\* are doubles as they stand, and 0.3 is the double nearest to 3/10
FloatLiteral ==
    [half |-> FloatFin(1, <<1>>, -1),
     oneAndHalf |-> FloatFin(1, <<3>>, -1),
     threeTenths |-> FloatDiv(FloatOf(3), FloatOf(10)),
     one |-> FloatOf(1)]

\* a variant of FloatAbs that keeps the sign
FloatAbsSigned(x) == x

\* abs(x) on floats
FloatAbs(x) == [x EXCEPT !.s = 1]

AnomalyFlag(field, severity, message, expected, actual) ==
    [field |-> field, severity |-> severity, message |-> message,
     expected |-> expected, actual |-> actual]

\* AnomalyDetector.check_single: the flags in the order they are appended.
\* expected and actual hold the floats and bounds the messages are formatted
\* from.  The arithmetic and the comparisons are those of the doubles.
AnomalyRules(stand_awal, stand_akhir, pemakaian, biaya, tarif, ti) ==
    LET Usage(expected_usage) ==
            IF /\ pemakaian.ok
               /\ FloatLess(FloatOf(1), FloatAbs(FloatSub(expected_usage, pemakaian)))
            THEN <<AnomalyFlag("pemakaian_kwh", "CRITICAL",
                     "Pemakaian doesn't match meter difference",
                     <<expected_usage>>, <<pemakaian>>)>>
            ELSE <<>>
        meters ==
            IF stand_awal.ok /\ stand_akhir.ok
            THEN (IF FloatLess(stand_akhir, stand_awal)
                  THEN <<AnomalyFlag("stand_meter_akhir", "CRITICAL",
                           "Stand meter akhir is LESS than stand meter awal (meter went backwards)",
                           <<">", stand_awal>>, <<stand_akhir>>)>>
                  ELSE <<>>)
                 \o Usage(FloatSub(stand_akhir, stand_awal))
            ELSE <<>>
        range ==
            IF pemakaian.ok /\ tarif # <<>> /\ ti # 0
            THEN IF FloatLess(pemakaian, FloatMul(FloatOf(TARIFF_TABLE[ti].low),
                                                  FloatLiteral.half))
                 THEN <<AnomalyFlag("pemakaian_kwh", "WARNING",
                          "Unusually LOW consumption for tariff",
                          <<TARIFF_TABLE[ti].low, TARIFF_TABLE[ti].high>>, <<pemakaian>>)>>
                 ELSE IF FloatLess(FloatMul(FloatOf(TARIFF_TABLE[ti].high),
                                            FloatLiteral.oneAndHalf), pemakaian)
                 THEN <<AnomalyFlag("pemakaian_kwh", "WARNING",
                          "Unusually HIGH consumption for tariff",
                          <<TARIFF_TABLE[ti].low, TARIFF_TABLE[ti].high>>, <<pemakaian>>)>>
                 ELSE <<>>
            ELSE <<>>
        \* deviation = abs(rate - expected_rate) / expected_rate > 0.3
        Deviates(rate) ==
            FloatLess(FloatLiteral.threeTenths,
                      FloatDiv(FloatAbs(FloatSub(rate, FloatOf(TARIFF_TABLE[ti].rate))),
                               FloatOf(TARIFF_TABLE[ti].rate)))
        billing ==
            IF /\ pemakaian.ok /\ biaya.ok /\ FloatLess(FloatZero(1), pemakaian)
               /\ ti # 0 /\ Deviates(FloatDiv(biaya, pemakaian))
            THEN <<AnomalyFlag("biaya_listrik", "WARNING",
                     "Billing rate deviates from expected rate",
                     <<TARIFF_TABLE[ti].rate>>, <<biaya, pemakaian>>)>>
            ELSE <<>>
        nonPositiveUsage ==
            IF pemakaian.ok /\ pemakaian.k # "nan" /\ ~FloatLess(FloatZero(1), pemakaian)
            THEN <<AnomalyFlag("pemakaian_kwh", "WARNING",
                     "Zero or negative consumption", <<">", 0>>, <<pemakaian>>)>>
            ELSE <<>>
        nonPositiveBilling ==
            IF biaya.ok /\ biaya.k # "nan" /\ ~FloatLess(FloatZero(1), biaya)
            THEN <<AnomalyFlag("biaya_listrik", "WARNING",
                     "Zero or negative billing amount", <<">", 0>>, <<biaya>>)>>
            ELSE <<>>
    IN  meters \o range \o billing \o nonPositiveUsage \o nonPositiveBilling

\* str(fields.get("tarif_daya", "")).strip().upper()
TarifOf(fields) ==
    py_upper(py_strip(py_str(py_get(fields, "tarif_daya", EmptyStr))))

\* a variant of check_single that takes the end reading for the start reading
check_singleSwapped(fields) ==
    AnomalyRules(_to_float(py_get(fields, "stand_meter_akhir", PyNone)),
                 _to_float(py_get(fields, "stand_meter_awal", PyNone)),
                 _to_float(py_get(fields, "pemakaian_kwh", PyNone)),
                 _to_float(py_get(fields, "biaya_listrik", PyNone)),
                 TarifOf(fields),
                 TariffIndex(_normalize_tarif(TarifOf(fields))))

\* a variant of check_single that leaves the billed amount unexamined once
\* the consumption is found zero or negative
check_singleFirstFinding(fields) ==
    AnomalyRules(_to_float(py_get(fields, "stand_meter_awal", PyNone)),
                 _to_float(py_get(fields, "stand_meter_akhir", PyNone)),
                 _to_float(py_get(fields, "pemakaian_kwh", PyNone)),
                 IF /\ _to_float(py_get(fields, "pemakaian_kwh", PyNone)).ok
                    /\ _to_float(py_get(fields, "pemakaian_kwh", PyNone)).k # "nan"
                    /\ ~FloatLess(FloatZero(1),
                                  _to_float(py_get(fields, "pemakaian_kwh", PyNone)))
                 THEN NoFloat
                 ELSE _to_float(py_get(fields, "biaya_listrik", PyNone)),
                 TarifOf(fields),
                 TariffIndex(_normalize_tarif(TarifOf(fields))))

\* a variant of check_single that reads a missing consumption or amount as 0
check_singleZeroForNull(fields) ==
    AnomalyRules(_to_float(py_get(fields, "stand_meter_awal", PyNone)),
                 _to_float(py_get(fields, "stand_meter_akhir", PyNone)),
                 IF _to_float(py_get(fields, "pemakaian_kwh", PyNone)).ok
                 THEN _to_float(py_get(fields, "pemakaian_kwh", PyNone)) ELSE FloatZero(1),
                 IF _to_float(py_get(fields, "biaya_listrik", PyNone)).ok
                 THEN _to_float(py_get(fields, "biaya_listrik", PyNone)) ELSE FloatZero(1),
                 TarifOf(fields),
                 TariffIndex(_normalize_tarif(TarifOf(fields))))

check_single(fields) ==
    AnomalyRules(_to_float(py_get(fields, "stand_meter_awal", PyNone)),
                 _to_float(py_get(fields, "stand_meter_akhir", PyNone)),
                 _to_float(py_get(fields, "pemakaian_kwh", PyNone)),
                 _to_float(py_get(fields, "biaya_listrik", PyNone)),
                 TarifOf(fields),
                 TariffIndex(_normalize_tarif(TarifOf(fields))))

----------------------------------------------------------------------------
(* Confidence classifier (ml/confidence_scorer.py)                          *)

\* a variant of ConfidenceResult whose thresholds are exclusive
ConfidenceResultAbove(confidence) ==
    [confidence_score |-> confidence,
     prediction |-> IF confidence > 600 THEN "VALID" ELSE "SUSPICIOUS",
     risk_level |-> IF confidence > 850 THEN "LOW"
                    ELSE IF confidence > 600 THEN "MEDIUM"
                    ELSE "HIGH"]

\* ConfidenceScorer.score from the rounded probability of the valid class on:
\* confidence is in tenths of a percent.  The forest's probability is an input.
ConfidenceResult(confidence) ==
    [confidence_score |-> confidence,
     prediction |-> IF confidence >= 600 THEN "VALID" ELSE "SUSPICIOUS",
     risk_level |-> IF confidence >= 850 THEN "LOW"
                    ELSE IF confidence >= 600 THEN "MEDIUM"
                    ELSE "HIGH"]

----------------------------------------------------------------------------
(* Crosscheck engine (crosscheck/crosscheck_engine.py)                      *)

\* COLUMN_TO_FIELD in dictionary order: <<Excel column, PDF field key>>
COLUMN_TO_FIELD ==
    << <<"ID Pelanggan",       "id_pelanggan">>,
       <<"Nama Pelanggan",     "nama_pelanggan">>,
       <<"Alamat",             "alamat">>,
       <<"Tarif/Daya",         "tarif_daya">>,
       <<"Nomor Meter",        "nomor_meter">>,
       <<"Nomor kWh",          "nomor_kwh">>,
       <<"Periode",            "periode">>,
       <<"Stand Meter Awal",   "stand_meter_awal">>,
       <<"Stand Meter Akhir",  "stand_meter_akhir">>,
       <<"Pemakaian (kWh)",    "pemakaian_kwh">>,
       <<"Biaya Listrik (Rp)", "biaya_listrik">> >>

CROSSCHECK_FIELDS == [i \in 1..Len(COLUMN_TO_FIELD) |-> COLUMN_TO_FIELD[i][1]]

_is_numeric_field(field_name) ==
    field_name \in {"Stand Meter Awal", "Stand Meter Akhir",
                    "Pemakaian (kWh)", "Biaya Listrik (Rp)"}

\* a in b or b in a, for two non-empty normalised values
_fuzzy_contains(pdf_val, excel_val) ==
    LET a == _normalize(pdf_val)
        b == _normalize(excel_val)
    IN  IF a = <<>> \/ b = <<>> THEN FALSE
        ELSE IsSubstring(a, b) \/ IsSubstring(b, a)

TEXT_FIELDS == {"Nama Pelanggan", "Alamat"}

\* matched_row = None
NoRow == -1

\* The matching score is a double built by float additions.  A double near
\* n / 10000 is the pair n, t: its value is n / 10000 + t * u, where the unit u
\* is 2^-(52+g) / 10000 and g is 14 for a similarity and 13 for a sum.

\* 2^e mod 20000
RECURSIVE PowMod(_)
PowMod(e) == IF e = 0 THEN 1 ELSE (2 * PowMod(e - 1)) % 20000

\* the exponent of the double nearest below n / 10000, from j upwards
RECURSIVE Binade(_, _)
Binade(n, j) ==
    IF (IF j + 1 >= 0 THEN 10000 * 2^(j + 1) <= n ELSE 10000 <= n * 2^(-(j + 1)))
    THEN Binade(n, j + 1)
    ELSE j

\* the double nearest to n / 10000 + t * u, ties to the even mantissa: the
\* distance s of the number from the multiple of the spacing 2^(j-52) next to
\* it is taken off t
FloatRound(n, t, g) ==
    LET \* s1 is in -half..half; at a tie the even multiple is taken
        Nearest(half, s1, odd1) ==
            [n |-> n, t |-> t - (IF s1 = half /\ odd1 = 1 THEN -half
                                 ELSE IF s1 = -half /\ odd1 = 1 THEN half
                                 ELSE s1)]
        Folded(half, s0, odd0, steps) ==
            Nearest(half, s0 - steps * 2 * half, (odd0 + steps * steps) % 2)
        \* s0 brought into -half..half, the multiple moving with it
        Offset(half, s0, odd0) ==
            Folded(half, s0, odd0,
                   IF s0 > half THEN (s0 - half - 1) \div (2 * half) + 1
                   ELSE IF s0 < -half THEN -((-s0 - half - 1) \div (2 * half) + 1)
                   ELSE 0)
        Placed(half, rs, up, hi) ==
            Offset(half,
                   (half \div 5000) * (IF up THEN rs - 10000 ELSE rs) + t,
                   (hi + (IF up THEN 1 ELSE 0)) % 2)
        Spaced(j, r2) ==
            Placed(2^(j + g) * 5000, r2 % 10000, (r2 % 10000) > 5000, r2 \div 10000)
        InBinade(j) == Spaced(j, ((n % 20000) * PowMod(52 - j)) % 20000)
        From(j0) ==
            InBinade(IF t < 0 /\ (IF j0 >= 0 THEN 10000 * 2^j0 = n
                                  ELSE 10000 = n * 2^(-j0))
                     THEN j0 - 1 ELSE j0)
    IN  IF n = 0 THEN [n |-> 0, t |-> 0] ELSE From(Binade(n, -14))

\* a < b on two matching scores
ScoreLess(a, b) == a.n < b.n \/ (a.n = b.n /\ a.t < b.t)

\* a variant of RowScore that compares the IDs as text, punctuation kept
RowScoreTextId(pdf, row, ml) ==
    LET pdf_id      == _normalize(py_get(pdf, "id_pelanggan", EmptyStr))
        pdf_meter   == _normalize(py_get(pdf, "nomor_meter", EmptyStr))
        pdf_name    == py_get(pdf, "nama_pelanggan", EmptyStr)
        pdf_addr    == py_get(pdf, "alamat", EmptyStr)
        excel_id    == _normalize(py_get(row, "ID Pelanggan", EmptyStr))
        excel_meter == _normalize(py_get(row, "Nomor Meter", EmptyStr))
        excel_name  == PyStr(py_str(py_get(row, "Nama Pelanggan", EmptyStr)))
        excel_addr  == PyStr(py_str(py_get(row, "Alamat", EmptyStr)))
        exact    == (IF pdf_id # <<>> /\ pdf_id = excel_id THEN 10 * ScoreScale ELSE 0)
                    + (IF pdf_meter # <<>> /\ pdf_meter = excel_meter THEN 5 * ScoreScale ELSE 0)
        name_sim == score(pdf_name, excel_name)
        addr_sim == score(pdf_addr, excel_addr)
        named    == IF ~py_truthy(pdf_name) THEN [n |-> exact, t |-> 0]
                    ELSE IF ml
                    THEN FloatRound(exact + 4 * name_sim, 2 * FloatRound(name_sim, 0, 14).t, 13)
                    ELSE IF _fuzzy_contains(pdf_name, excel_name)
                    THEN [n |-> exact + 3 * ScoreScale, t |-> 0]
                    ELSE [n |-> exact, t |-> 0]
    IN  IF py_truthy(pdf_addr) /\ ml
        THEN FloatRound(named.n + 2 * addr_sim, named.t + FloatRound(addr_sim, 0, 14).t, 13)
        ELSE named

\* the score one candidate row earns in the loop of _find_matching_row: n is
\* the sum in units of 0.0001 point and t what the float additions left it
\* off that sum (score = 0.0; score += 10; score += 5; score += sim * 4 or
\* score += 3; score += sim * 2)
RowScore(pdf, row, ml) ==
    LET pdf_id      == _normalize_numeric(py_get(pdf, "id_pelanggan", EmptyStr))
        pdf_meter   == _normalize(py_get(pdf, "nomor_meter", EmptyStr))
        pdf_name    == py_get(pdf, "nama_pelanggan", EmptyStr)
        pdf_addr    == py_get(pdf, "alamat", EmptyStr)
        excel_id    == _normalize_numeric(py_get(row, "ID Pelanggan", EmptyStr))
        excel_meter == _normalize(py_get(row, "Nomor Meter", EmptyStr))
        excel_name  == PyStr(py_str(py_get(row, "Nama Pelanggan", EmptyStr)))
        excel_addr  == PyStr(py_str(py_get(row, "Alamat", EmptyStr)))
        idPts    == IF pdf_id # <<>> /\ excel_id # <<>> /\ pdf_id = excel_id
                    THEN 10 * ScoreScale ELSE 0
        meterPts == IF pdf_meter # <<>> /\ excel_meter # <<>> /\ pdf_meter = excel_meter
                    THEN 5 * ScoreScale ELSE 0
        name_sim == score(pdf_name, excel_name)
        addr_sim == score(pdf_addr, excel_addr)
        named    == IF py_truthy(pdf_name) /\ py_truthy(excel_name)
                    THEN IF ml
                         THEN FloatRound(idPts + meterPts + 4 * name_sim,
                                         2 * FloatRound(name_sim, 0, 14).t, 13)
                         ELSE IF _fuzzy_contains(pdf_name, excel_name)
                         THEN [n |-> idPts + meterPts + 3 * ScoreScale, t |-> 0]
                         ELSE [n |-> idPts + meterPts, t |-> 0]
                    ELSE [n |-> idPts + meterPts, t |-> 0]
    IN  IF py_truthy(pdf_addr) /\ py_truthy(excel_addr) /\ ml
        THEN FloatRound(named.n + 2 * addr_sim, named.t + FloatRound(addr_sim, 0, 14).t, 13)
        ELSE named

\* a variant of RowScores that does not look at the extracted ID
RowScoresWithoutId(pdf, df, ml) ==
    [i \in 1..Len(df) |->
        RowScore([k \in DOMAIN pdf \ {"id_pelanggan"} |-> pdf[k]], df[i], ml)]

\* the score of every row, in the order the loop visits them
RowScores(pdf, df, ml) == [i \in 1..Len(df) |-> RowScore(pdf, df[i], ml)]

\* a variant of MatchLoop in which a later row with an equal score wins
RECURSIVE MatchLoopLastWins(_, _, _, _)
MatchLoopLastWins(scores, idx, best_idx, best_score) ==
    IF idx >= Len(scores) THEN [best_idx |-> best_idx, best_score |-> best_score]
    ELSE IF ~ScoreLess(scores[idx + 1], best_score)
    THEN MatchLoopLastWins(scores, idx + 1, idx, scores[idx + 1])
    ELSE MatchLoopLastWins(scores, idx + 1, best_idx, best_score)

\* the loop of _find_matching_row from row idx on: strictly greater wins
RECURSIVE MatchLoop(_, _, _, _)
MatchLoop(scores, idx, best_idx, best_score) ==
    IF idx >= Len(scores) THEN [best_idx |-> best_idx, best_score |-> best_score]
    ELSE IF ScoreLess(best_score, scores[idx + 1])
    THEN MatchLoop(scores, idx + 1, idx, scores[idx + 1])
    ELSE MatchLoop(scores, idx + 1, best_idx, best_score)

\* a variant of SelectBest that wants more than 3 points
SelectBestAbove(best) ==
    IF ScoreLess([n |-> 3 * ScoreScale, t |-> 0], best.best_score)
    THEN best.best_idx ELSE NoRow

\* return best_idx if best_score >= 3 else None
SelectBest(best) ==
    IF ~ScoreLess(best.best_score, [n |-> 3 * ScoreScale, t |-> 0])
    THEN best.best_idx ELSE NoRow

_find_matching_row(pdf, df, ml) ==
    SelectBest(MatchLoop(RowScores(pdf, df, ml), 0, NoRow, [n |-> 0, t |-> 0]))

\* str(v) if v else None
StrOrNone(v) == IF py_truthy(v) THEN PyStr(py_str(v)) ELSE PyNone

\* a variant of SimilarityVerdict with a fourth status for a middling score
SimilarityVerdictGraded(excel_col, pdf_key, pv, ev, sim_score) ==
    [field_name |-> excel_col, pdf_key |-> pdf_key,
     pdf_value |-> pv, excel_value |-> ev,
     match_status |-> IF sim_score >= 7500 THEN "MATCH"
                      ELSE IF sim_score >= 4000 THEN "PARTIAL"
                      ELSE "MISMATCH",
     notes |-> <<"ML similarity=", sim_score, classify_match(sim_score)>>]

\* the ML branch of _compare_field: MATCH from a similarity of 0.75 on
SimilarityVerdict(excel_col, pdf_key, pv, ev, sim_score) ==
    [field_name |-> excel_col, pdf_key |-> pdf_key,
     pdf_value |-> pv, excel_value |-> ev,
     match_status |-> IF sim_score >= 7500 THEN "MATCH" ELSE "MISMATCH",
     notes |-> IF sim_score >= 7500
               THEN <<"ML similarity match (", classify_match(sim_score), sim_score>>
               ELSE <<"ML similarity=", sim_score, classify_match(sim_score),
                      pv.s, ev.s>>]

_compare_field(excel_col, pdf_key, pdf_value, excel_value, ml) ==
    LET pv == StrOrNone(pdf_value)
        ev == IF py_truthy(excel_value) /\ excel_value.t # "nan"
              THEN PyStr(py_str(excel_value)) ELSE PyNone
        verdict(status, notes) ==
            [field_name |-> excel_col, pdf_key |-> pdf_key,
             pdf_value |-> pv, excel_value |-> ev,
             match_status |-> status, notes |-> notes]
    IN  IF ~py_truthy(pv) /\ ~py_truthy(ev)
        THEN verdict("MISSING", <<"Both PDF and Excel values are empty">>)
        ELSE IF ~py_truthy(pv)
        THEN verdict("MISSING", <<"Not found in PDF document">>)
        ELSE IF ~py_truthy(ev)
        THEN verdict("MISSING", <<"Not found in Excel template">>)
        ELSE IF _is_numeric_field(excel_col)
        THEN LET pdf_norm   == _normalize_numeric(pdf_value)
                 excel_norm == _normalize_numeric(excel_value)
             IN  IF pdf_norm = excel_norm
                 THEN verdict("MATCH", <<"Exact numeric match">>)
                 ELSE verdict("MISMATCH", <<"PDF='", pdf_norm, "' vs Excel='", excel_norm, "'">>)
        ELSE LET pdf_norm   == _normalize(pdf_value)
                 excel_norm == _normalize(excel_value)
             IN  IF pdf_norm = excel_norm
                 THEN verdict("MATCH", <<"Exact match">>)
                 ELSE IF _fuzzy_contains(PyStr(pdf_norm), PyStr(excel_norm))
                 THEN verdict("MATCH", <<"Partial/contains match">>)
                 ELSE IF ml /\ excel_col \in TEXT_FIELDS
                 THEN SimilarityVerdict(excel_col, pdf_key, pv, ev,
                                        score(PyStr(py_str(pdf_value)),
                                              PyStr(py_str(excel_value))))
                 ELSE verdict("MISMATCH",
                              <<"PDF='", py_str(pdf_value), "' vs Excel='",
                                py_str(excel_value), "'">>)

\* the loop over COLUMN_TO_FIELD of run() and run_all_rows()
CompareRow(pdf, excel_row, ml) ==
    [i \in 1..Len(COLUMN_TO_FIELD) |->
        _compare_field(COLUMN_TO_FIELD[i][1], COLUMN_TO_FIELD[i][2],
                       py_get(pdf, COLUMN_TO_FIELD[i][2], PyNone),
                       py_get(excel_row, COLUMN_TO_FIELD[i][1], PyNone), ml)]

\* sum(1 for r in results if r["match_status"] == status)
CountStatus(results, status) ==
    Cardinality({i \in 1..Len(results) : results[i].match_status = status})

\* a variant of RoundTenths that truncates
TruncateTenths(num, den) == (1000 * num) \div den

\* round(x, 1) of the exact quotient 100 * num / den, in tenths (half to even)
RoundTenths(num, den) ==
    LET scaled == 1000 * num
        q == scaled \div den
        r == scaled % den
    IN  IF 2 * r > den \/ (2 * r = den /\ q % 2 = 1) THEN q + 1 ELSE q

\* round((matches / total) * 100, 1) if total > 0 else 0, in tenths of a percent
MatchPercentage(matches, total) ==
    IF total > 0 THEN RoundTenths(matches, total) ELSE 0

_ml_text_similarity(pdf, pdf_key, excel_col, excel_row) ==
    LET pdf_val   == PyStr(py_str(py_get(pdf, pdf_key, EmptyStr)))
        excel_val == PyStr(py_str(py_get(excel_row, excel_col, EmptyStr)))
        sim       == score(pdf_val, excel_val)
    IN  IF ~py_truthy(pdf_val) \/ ~py_truthy(excel_val)
        THEN [score |-> 0, classification |-> "NO_MATCH"]
        ELSE [score |-> sim, classification |-> classify_match(sim)]

_no_match_result(pdf, now) ==
    LET results == [i \in 1..Len(COLUMN_TO_FIELD) |->
                       [field_name |-> COLUMN_TO_FIELD[i][1],
                        pdf_key |-> COLUMN_TO_FIELD[i][2],
                        pdf_value |-> StrOrNone(py_get(pdf, COLUMN_TO_FIELD[i][2], PyNone)),
                        excel_value |-> PyNone,
                        match_status |-> "MISSING",
                        notes |-> <<"No matching row found in Excel template">>]]
    IN  [call |-> "run",
         keys |-> {"matched_row", "results", "summary"},
         matched_row |-> NoRow,
         results |-> results,
         summary |-> [matched_row_index |-> NoRow,
                      matched_row_number |-> NoRow,
                      total_fields_checked |-> Len(results),
                      total_match |-> 0,
                      total_mismatch |-> 0,
                      total_missing |-> Len(results),
                      match_percentage |-> 0,
                      checked_at |-> now]]

\* the body shared by _compute_meter_deviation and _compute_billing_deviation:
\* 0.5 when float() raises, 0.0 when the reference is zero, otherwise
\* min(abs(pdf_v - excel_v) / excel_v, 1.0), which is the quotient unless 1.0
\* is less: nan when the quotient is nan, the quotient when it is negative
Deviation(pdf_text, excel_text) ==
    LET Capped(q) == IF FloatLess(FloatLiteral.one, q) THEN FloatLiteral.one ELSE q
        Of(pdf_v, excel_v) ==
            IF ~pdf_v.ok \/ ~excel_v.ok THEN FloatLiteral.half
            ELSE IF excel_v.k = "fin" /\ excel_v.m = <<>> THEN FloatZero(1)
            ELSE Capped(FloatDiv(FloatAbs(FloatSub(pdf_v, excel_v)), excel_v))
    IN  Of(IF pdf_text # <<>> THEN py_float(pdf_text) ELSE FloatZero(1),
           IF excel_text # <<>> THEN py_float(excel_text) ELSE FloatZero(1))

_compute_meter_deviation(pdf, excel_row) ==
    Deviation(_normalize_numeric(py_get(pdf, "stand_meter_akhir", PyStr(<<"0">>))),
              _normalize_numeric(py_get(excel_row, "Stand Meter Akhir", PyStr(<<"0">>))))

_compute_billing_deviation(pdf, excel_row) ==
    Deviation(_normalize_numeric(py_get(pdf, "biaya_listrik", PyStr(<<"0">>))),
              _normalize_numeric(py_get(excel_row, "Biaya Listrik (Rp)", PyStr(<<"0">>))))

\* the similarity metadata run() attaches to the name and address comparisons
WithSimilarity(r, name_sim, addr_sim) ==
    IF r.field_name \in TEXT_FIELDS
    THEN LET sim == IF r.pdf_key = "nama_pelanggan" THEN name_sim ELSE addr_sim
         IN  r @@ [similarity_score |-> sim.score, similarity_class |-> sim.classification]
    ELSE r

\* run() from the comparison of the matched row on: the summary and, in ML
\* mode, the similarity, anomaly and confidence entries
RunMatched(pdf, excel_row, ml, confidence, matched_row_idx, results, name_sim, addr_sim, anomaly_flags, now) ==
    LET total      == Len(results)
        matches    == CountStatus(results, "MATCH")
        mismatches == CountStatus(results, "MISMATCH")
        missing    == CountStatus(results, "MISSING")
        summary    == [matched_row_index |-> matched_row_idx,
                       matched_row_number |-> matched_row_idx + 1,
                       total_fields_checked |-> total,
                       total_match |-> matches,
                       total_mismatch |-> mismatches,
                       total_missing |-> missing,
                       match_percentage |-> MatchPercentage(matches, total),
                       checked_at |-> now]
        confidence_features ==
            [match_ratio |-> IF total > 0 THEN FloatDiv(FloatOf(matches), FloatOf(total))
                             ELSE FloatZero(1),
             name_similarity |-> name_sim.score,
             address_similarity |-> addr_sim.score,
             meter_deviation |-> _compute_meter_deviation(pdf, excel_row),
             billing_deviation |-> _compute_billing_deviation(pdf, excel_row),
             anomaly_count |-> Len(anomaly_flags),
             missing_fields |-> missing]
    IN  IF ~ml
        THEN [call |-> "run",
              keys |-> {"matched_row", "results", "summary"},
              matched_row |-> matched_row_idx,
              results |-> results,
              summary |-> summary]
        ELSE [call |-> "run",
              keys |-> {"matched_row", "results", "summary",
                        "ml_similarity", "ml_anomalies", "ml_confidence"},
              matched_row |-> matched_row_idx,
              results |-> [i \in 1..Len(results) |->
                              WithSimilarity(results[i], name_sim, addr_sim)],
              summary |-> summary,
              ml_similarity |-> [nama_pelanggan |-> name_sim, alamat |-> addr_sim],
              ml_anomalies |-> anomaly_flags,
              confidence_features |-> confidence_features,
              ml_confidence |-> ConfidenceResult(confidence)]

\* a variant of RunFrom that compares against the first row when none is
\* selected
RunFromFirstRow(pdf, df, ml, confidence, matched_row_idx, now) ==
    IF df = <<>> THEN _no_match_result(pdf, now)
    ELSE RunMatched(pdf, df[1], ml, confidence, 0, CompareRow(pdf, df[1], ml),
                    _ml_text_similarity(pdf, "nama_pelanggan", "Nama Pelanggan", df[1]),
                    _ml_text_similarity(pdf, "alamat", "Alamat", df[1]),
                    check_single(pdf), now)

\* a variant of RunFrom that leaves the ML entries out
RunFromPlain(pdf, df, ml, confidence, matched_row_idx, now) ==
    IF matched_row_idx = NoRow THEN _no_match_result(pdf, now)
    ELSE RunMatched(pdf, df[matched_row_idx + 1], FALSE, confidence, matched_row_idx,
                    CompareRow(pdf, df[matched_row_idx + 1], ml),
                    [score |-> 0, classification |-> "NO_MATCH"],
                    [score |-> 0, classification |-> "NO_MATCH"],
                    <<>>, now)

\* run() from the outcome of _find_matching_row on
RunFrom(pdf, df, ml, confidence, matched_row_idx, now) ==
    IF matched_row_idx = NoRow THEN _no_match_result(pdf, now)
    ELSE RunMatched(pdf, df[matched_row_idx + 1], ml, confidence, matched_row_idx,
                    CompareRow(pdf, df[matched_row_idx + 1], ml),
                    _ml_text_similarity(pdf, "nama_pelanggan", "Nama Pelanggan",
                                        df[matched_row_idx + 1]),
                    _ml_text_similarity(pdf, "alamat", "Alamat",
                                        df[matched_row_idx + 1]),
                    check_single(pdf), now)

\* what datetime.now().isoformat() returns at two instants; on a whole second
\* it leaves the microseconds out
IsoTimes == {"2024-01-15T10:30:00", "2024-01-15T10:30:00.000001"}

\* CrosscheckEngine.run(); confidence is the classifier's rounded probability
\* and now the text datetime.now().isoformat() returns
run(pdf, df, ml, confidence, now) ==
    RunFrom(pdf, df, ml, confidence, _find_matching_row(pdf, df, ml), now)

\* a variant of RowEntry that numbers the rows from one in both places
RowEntryFromOne(idx0, row_results) ==
    [row_index |-> idx0,
     row_number |-> idx0,
     results |-> row_results,
     match_count |-> CountStatus(row_results, "MATCH"),
     match_percentage |-> MatchPercentage(CountStatus(row_results, "MATCH"),
                                          Len(row_results))]

\* one entry of run_all_rows() from the comparison of its row
RowEntry(idx0, row_results) ==
    [row_index |-> idx0 - 1,
     row_number |-> idx0,
     results |-> row_results,
     match_count |-> CountStatus(row_results, "MATCH"),
     match_percentage |-> MatchPercentage(CountStatus(row_results, "MATCH"),
                                          Len(row_results))]

\* a variant of run_all_rows that walks the rows from the last to the first
run_all_rowsBackwards(pdf, df, ml) ==
    [idx0 \in 1..Len(df) |-> RowEntry(idx0, CompareRow(pdf, df[Len(df) + 1 - idx0], ml))]

\* CrosscheckEngine.run_all_rows()
run_all_rows(pdf, df, ml) ==
    [idx0 \in 1..Len(df) |-> RowEntry(idx0, CompareRow(pdf, df[idx0], ml))]

----------------------------------------------------------------------------
(* Bounded inputs                                                           *)

RECURSIVE SeqsUpTo(_, _)
SeqsUpTo(S, n) ==
    IF n = 0 THEN {<<>>}
    ELSE LET shorter == SeqsUpTo(S, n - 1)
         IN  shorter \cup {Append(q, x) : q \in shorter, x \in S}

MaxNumLen == 3

NumInputs ==
    {PyNone, PyNaN, PyInt(0), PyInt(250), PyInt(-7), PyFloat(250)}
        \cup {PyStr(s) : s \in SeqsUpTo({"R", "p", ".", " ", "1"}, MaxNumLen)}

MaxTextLen == 2

TextInputs == {PyStr(s) : s \in SeqsUpTo({"j", "l", "a", ".", " "}, MaxTextLen)}

Keys == {COLUMN_TO_FIELD[i][2] : i \in 1..Len(COLUMN_TO_FIELD)}

Columns == {COLUMN_TO_FIELD[i][1] : i \in 1..Len(COLUMN_TO_FIELD)}

KeyIndex(k) == CHOOSE i \in 1..Len(COLUMN_TO_FIELD) : COLUMN_TO_FIELD[i][2] = k

\* a reference row from its eleven cells in column order
Row(cells) ==
    [c \in Columns |-> cells[CHOOSE i \in 1..Len(COLUMN_TO_FIELD) : COLUMN_TO_FIELD[i][1] = c]]

\* extracted fields from eleven values in field order, without the absent keys
Doc(values, absent) == [k \in Keys \ absent |-> values[KeyIndex(k)]]

\* the texts the documents and the reference rows below are made of
Texts ==
    [NameAbCd  |-> <<"A","b"," ","C","d">>,
     NameAbCe  |-> <<"A","b"," ","C","e">>,
     NameABCD  |-> <<"A","B"," ","C","D">>,
     NameABCE  |-> <<"A","B"," ","C","E">>,
     NameAB    |-> <<"A","B">>,
     AddrJlA5  |-> <<"J","l","."," ","A"," ","5">>,
     AddrJalan |-> <<"J","A","L","A","N"," ","A"," ","5">>,
     AddrGgB   |-> <<"G","G"," ","B">>,
     TarifR1   |-> <<"R","1","/","1","3","0","0">>,
     TarifR1VA |-> <<"R","1","/","1","3","0","0"," ","V","A">>,
     MeterLow  |-> <<"m","1">>,
     MeterM1   |-> <<"M","1">>,
     MeterM2   |-> <<"M","2">>,
     PeriodJan |-> <<"J","a","n"," ","2","4">>,
     Id53      |-> <<"5","3">>,
     Id5dot3   |-> <<"5",".","3">>,
     Id77      |-> <<"7","7">>,
     Text100   |-> <<"1","0","0">>,
     Text350   |-> <<"3","5","0">>,
     Text250   |-> <<"2","5","0">>,
     Text280   |-> <<"2","8","0">>,
     Text30    |-> <<"3","0">>,
     TextRp361 |-> <<"R","p"," ","3","6","1",".","0","0","0">>,
     TextBad   |-> <<"3","x">>]

\* the extracted-field mappings the engine is constructed with
DocPool ==
    { \* complete, agreeing with the first reference row
      Doc(<<PyStr(Texts.Id53), PyStr(Texts.NameAbCd), PyStr(Texts.AddrJlA5), PyStr(Texts.TarifR1VA),
            PyStr(Texts.MeterLow), PyStr(<<"8","5","2">>), PyStr(Texts.PeriodJan),
            PyStr(Texts.Text100), PyStr(Texts.Text350), PyStr(Texts.Text250), PyStr(Texts.TextRp361)>>, {}),
      \* punctuated ID, another first name, readings that disagree
      Doc(<<PyStr(Texts.Id5dot3), PyStr(Texts.NameAbCe), PyStr(Texts.AddrJlA5), PyStr(Texts.TarifR1),
            PyStr(Texts.MeterM2), PyNone, PyStr(Texts.PeriodJan),
            PyStr(Texts.Text350), PyStr(Texts.Text100), PyStr(Texts.Text280), PyStr(<<"0">>)>>, {}),
      \* nothing extracted
      Doc(<<PyNone, PyNone, PyNone, PyNone, PyNone, PyNone,
            PyNone, PyNone, PyNone, PyNone, PyNone>>, Keys),
      \* the name alone
      Doc(<<PyNone, PyStr(Texts.NameAbCd), PyNone, PyNone, PyNone, PyNone,
            PyNone, PyNone, PyNone, PyNone, PyNone>>, Keys \ {"nama_pelanggan"}),
      \* the address alone, the name present but null
      Doc(<<PyNone, PyNone, PyStr(Texts.AddrJlA5), PyNone, PyNone, PyNone,
            PyNone, PyNone, PyNone, PyNone, PyNone>>, Keys \ {"nama_pelanggan", "alamat"}),
      \* the meter number and unreadable numbers
      Doc(<<PyNone, PyNone, PyNone, PyStr(Texts.TarifR1), PyStr(Texts.MeterLow), PyNone,
            PyNone, PyStr(Texts.TextBad), PyStr(Texts.TextBad), PyStr(Texts.Text30), PyStr(Texts.TextBad)>>,
          {"id_pelanggan", "nama_pelanggan", "alamat", "nomor_kwh", "periode"}) }

\* the reference rows a template is filled from
RowPool ==
    { Row(<<PyInt(53), PyStr(Texts.NameABCD), PyStr(Texts.AddrJalan), PyStr(Texts.TarifR1),
            PyStr(Texts.MeterM1), PyInt(852), PyStr(Texts.PeriodJan),
            PyInt(100), PyInt(350), PyInt(250), PyInt(361000)>>),
      Row(<<PyStr(Texts.Id5dot3), PyStr(Texts.NameABCE), PyStr(Texts.AddrGgB), PyStr(Texts.TarifR1),
            PyStr(Texts.MeterM2), PyNaN, PyStr(Texts.PeriodJan),
            PyFloat(100), PyFloat(350), PyInt(0), PyNaN>>),
      Row(<<PyInt(77), PyStr(Texts.NameAB), PyNaN, PyNaN,
            PyNaN, PyInt(0), PyNaN, PyNaN, PyInt(-350), PyNaN, PyStr(Texts.TextBad)>>),
      Row(<<PyNaN, PyNaN, PyNaN, PyNaN,
            PyNaN, PyNaN, PyNaN, PyNaN, PyNaN, PyNaN, PyNaN>>) }

MaxRows == 2

Tables == SeqsUpTo(RowPool, MaxRows)

\* the rounded probabilities the classifier is taken to return, in tenths of
\* a percent: both sides of each threshold
ConfidenceLevels == {599, 600, 849, 850}

MaxMatchRuns == 2

----------------------------------------------------------------------------
(* Idle values of the parts a specification does not exercise              *)

NormIdle == norm_in = PyNone /\ norm_out = <<>>

SimIdle == sim_a = EmptyStr /\ sim_b = EmptyStr /\ sim_out = <<>>

NoCall == [call |-> "none"]

\* the threads that may share one scorer
Threads == {1, 2}

\* a thread that makes no call
OffThread == [pc |-> "off", op |-> "none", entered |-> 0, raced |-> FALSE,
              unfitted_read |-> FALSE, calls |-> 0, confidence |-> -1]

ScorerIdle ==
    /\ trainings = 0
    /\ fits = [scaler |-> [fit |-> FALSE, fitting |-> {}],
               model |-> [fit |-> FALSE, fitting |-> {}]]
    /\ threads = [t \in Threads |-> OffThread]

EngineIdle ==
    /\ pdf_fields = Doc(<<>>, Keys)
    /\ excel_df = <<>>
    /\ use_ml = FALSE
    /\ scorer_trained = FALSE
    /\ ret = NoCall
    /\ match_log = <<>>

----------------------------------------------------------------------------
(* The numeric normaliser applied to its own result                        *)

NormInit ==
    /\ norm_in \in NumInputs
    /\ norm_out = <<>>
    /\ SimIdle
    /\ EngineIdle
    /\ ScorerIdle

\* _normalize_numeric(x), then _normalize_numeric of the string it returned
NormalizeNumericCall ==
    /\ Len(norm_out) < 2
    /\ norm_out' = Append(norm_out,
                          _normalize_numeric(IF norm_out = <<>> THEN norm_in
                                             ELSE PyStr(norm_out[Len(norm_out)])))
    /\ UNCHANGED <<norm_in, simVars, engineVars, scorerVars>>

SpecNorm == NormInit /\ [][NormalizeNumericCall]_vars

----------------------------------------------------------------------------
(* The similarity scorer on a pair of texts                                 *)

SimInit ==
    /\ sim_a \in TextInputs
    /\ sim_b \in TextInputs
    /\ sim_out = <<>>
    /\ NormIdle
    /\ EngineIdle
    /\ ScorerIdle

\* score(a, b), then score(b, a), then score(a, a)
ScoreCall ==
    /\ Len(sim_out) < 3
    /\ sim_out' = Append(sim_out,
                         CASE Len(sim_out) = 0 -> score(sim_a, sim_b)
                           [] Len(sim_out) = 1 -> score(sim_b, sim_a)
                           [] Len(sim_out) = 2 -> score(sim_a, sim_a))
    /\ UNCHANGED <<sim_a, sim_b, normVars, engineVars, scorerVars>>

SpecSim == SimInit /\ [][ScoreCall]_vars

----------------------------------------------------------------------------
(* The engine: constructed on a document and a template, then called        *)

\* the state __init__ leaves: in ML mode the scorer is trained at once
Init ==
    /\ pdf_fields \in DocPool
    /\ excel_df \in Tables
    /\ use_ml \in BOOLEAN
    /\ scorer_trained = use_ml
    /\ trainings = (IF use_ml THEN 1 ELSE 0)
    /\ fits = [scaler |-> [fit |-> use_ml, fitting |-> {}],
               model |-> [fit |-> use_ml, fitting |-> {}]]
    /\ threads = [t \in Threads |-> OffThread]
    /\ ret = NoCall
    /\ match_log = <<>>
    /\ NormIdle
    /\ SimIdle

\* engine.run(); in ML mode ConfidenceScorer.score trains first if untrained
\* and the classifier returns one of the rounded probabilities.  The result
\* is computed once; the clock's reading and the probability, on which
\* nothing else in it depends, are then put in for every value they can take
Run ==
    /\ \E result \in {run(pdf_fields, excel_df, use_ml, 0, CHOOSE now \in IsoTimes : TRUE)} :
          LET scored == "ml_confidence" \in result.keys
          IN  /\ \E now \in IsoTimes, confidence \in ConfidenceLevels :
                    ret' = IF scored
                           THEN [result EXCEPT
                                    !.summary.checked_at = now,
                                    !.ml_confidence = ConfidenceResult(confidence)]
                           ELSE [result EXCEPT !.summary.checked_at = now]
              /\ scorer_trained' = (scorer_trained \/ scored)
              /\ trainings' = (IF scored /\ ~scorer_trained
                               THEN trainings + 1 ELSE trainings)
              /\ fits' = IF scored /\ ~scorer_trained
                         THEN [scaler |-> [fit |-> TRUE, fitting |-> {}],
                               model |-> [fit |-> TRUE, fitting |-> {}]]
                         ELSE fits
    /\ match_log' = <<>>
    /\ UNCHANGED <<pdf_fields, excel_df, use_ml, threads, normVars, simVars>>

\* engine.run_all_rows()
RunAllRows ==
    /\ ret' = [call |-> "run_all_rows",
               rows |-> run_all_rows(pdf_fields, excel_df, use_ml)]
    /\ match_log' = <<>>
    /\ UNCHANGED <<pdf_fields, excel_df, use_ml, scorer_trained, scorerVars,
                   normVars, simVars>>

\* a variant of FindMatchingRow that takes the selected row out of the
\* candidates
FindMatchingRowConsuming ==
    /\ Len(match_log) < MaxMatchRuns
    /\ \E scores \in {RowScores(pdf_fields, excel_df, use_ml)} :
       \E best \in {MatchLoop(scores, 0, NoRow, [n |-> 0, t |-> 0])} :
          /\ ret' = [call |-> "_find_matching_row",
                     matched_row |-> SelectBest(best),
                     best_score |-> best.best_score,
                     scores |-> scores]
          /\ match_log' = Append(match_log,
                                 [matched_row |-> SelectBest(best),
                                  best_score |-> best.best_score,
                                  pdf_fields |-> pdf_fields,
                                  excel_df |-> excel_df])
          /\ excel_df' = IF SelectBest(best) = NoRow THEN excel_df
                         ELSE SubSeq(excel_df, 1, SelectBest(best))
                                  \o SubSeq(excel_df, SelectBest(best) + 2, Len(excel_df))
    /\ UNCHANGED <<pdf_fields, use_ml, scorer_trained, scorerVars, normVars, simVars>>

\* engine._find_matching_row(), with the score each row earned, the best
\* score its loop ended on and the inputs it read
FindMatchingRow ==
    /\ Len(match_log) < MaxMatchRuns
    /\ \E scores \in {RowScores(pdf_fields, excel_df, use_ml)} :
       \E best \in {MatchLoop(scores, 0, NoRow, [n |-> 0, t |-> 0])} :
          /\ ret' = [call |-> "_find_matching_row",
                     matched_row |-> SelectBest(best),
                     best_score |-> best.best_score,
                     scores |-> scores]
          /\ match_log' = Append(match_log,
                                 [matched_row |-> SelectBest(best),
                                  best_score |-> best.best_score,
                                  pdf_fields |-> pdf_fields,
                                  excel_df |-> excel_df])
    /\ UNCHANGED <<pdf_fields, excel_df, use_ml, scorer_trained, scorerVars,
                   normVars, simVars>>

Next == Run \/ RunAllRows \/ FindMatchingRow

Spec == Init /\ [][Next]_vars

\* the engine on templates filled from two sparse rows: one that has the
\* document's ID and a negative closing reading and nothing else, and one
\* that has everything but the ID
EdgeInit ==
    /\ \/ /\ pdf_fields \in DocPool
          /\ excel_df \in SeqsUpTo(
                {Row(<<PyInt(53), PyNaN, PyNaN, PyNaN, PyNaN, PyNaN, PyNaN, PyNaN,
                       PyInt(-350), PyNaN, PyNaN>>),
                 Row(<<PyNaN, PyStr(Texts.NameABCD), PyStr(Texts.AddrJalan),
                       PyStr(Texts.TarifR1), PyStr(Texts.MeterM1), PyInt(852),
                       PyStr(Texts.PeriodJan), PyInt(100), PyInt(350), PyInt(250),
                       PyInt(361000)>>)},
                MaxRows)
       \* a name and an address against two rows whose similarities give the
       \* same sum, 4 x 0.4416 + 2 x 0.6194 and 4 x 0.7093 + 2 x 0.0840, and
       \* two doubles one bit apart
       \/ /\ pdf_fields = [nama_pelanggan |-> PyStr(<<"a","b","c","d"," ","e","f">>),
                           alamat |-> PyStr(<<"x","y"," ","z","w"," ","q">>)]
          /\ excel_df \in SeqsUpTo(
                {Row(<<PyNaN, PyStr(<<"a"," ","c","d"," ","e","f">>),
                       PyStr(<<"q"," ","z","w"," ","q">>),
                       PyNaN, PyNaN, PyNaN, PyNaN, PyNaN, PyNaN, PyNaN, PyNaN>>),
                 Row(<<PyNaN, PyStr(<<"a","b","c","d">>), PyStr(<<"w">>),
                       PyNaN, PyNaN, PyNaN, PyNaN, PyNaN, PyNaN, PyNaN, PyNaN>>)},
                MaxRows)
    /\ use_ml \in BOOLEAN
    /\ scorer_trained = use_ml
    /\ trainings = (IF use_ml THEN 1 ELSE 0)
    /\ fits = [scaler |-> [fit |-> use_ml, fitting |-> {}],
               model |-> [fit |-> use_ml, fitting |-> {}]]
    /\ threads = [t \in Threads |-> OffThread]
    /\ ret = NoCall
    /\ match_log = <<>>
    /\ NormIdle
    /\ SimIdle

SpecEdge == EdgeInit /\ [][Next]_vars

----------------------------------------------------------------------------
(* The anomaly rules on one record                                          *)

\* a field the extractor did not produce
Absent == [t |-> "absent", s |-> <<>>, n |-> 0]

\* the raw values the rule engine is given, field by field
AnomalyValues ==
    [tarif_daya |->
        {Absent, PyStr(Texts.TarifR1), PyStr(<<"r","1","-","1","3","0","0"," ","v","a">>),
         PyStr(<<"R","1","/","9","0","0">>), PyStr(<<"X","9">>)},
     stand_meter_awal |->
        {PyNone, PyStr(<<"0">>), PyStr(<<"1","5","2","3","0">>), PyStr(Texts.TextBad),
         PyStr(<<"1","2","e","-","1">>)},
     stand_meter_akhir |->
        {Absent, PyStr(<<"1","5","4","8","0">>), PyStr(<<"1","5",".","4","8","0">>),
         PyStr(<<"1","5","2","3","0">>), PyStr(Texts.Text100), PyStr(<<"1","2","e","-","1">>),
         PyStr(<<"2","2","e","-","1">>)},
     pemakaian_kwh |->
        {Absent, PyStr(Texts.TextBad), PyStr(<<"0">>), PyStr(<<"3","9">>), PyStr(<<"4","0">>),
         PyStr(<<"4","0"," ","k","W","h">>), PyStr(<<"2","4","8">>), PyStr(<<"2","4","9">>),
         PyStr(Texts.Text250), PyStr(<<"2","5","1">>), PyStr(<<"2","5","2">>),
         PyStr(Texts.Text280), PyStr(<<"7","5","1">>), PyStr(<<"n","a","n">>),
         PyStr(<<"2","2","e","-","1">>), PyStr(<<"9">>)},
     biaya_listrik |->
        {Absent, PyStr(Texts.TextRp361), PyStr(<<"0">>), PyStr(<<"4","6","9","3","0","0">>),
         PyStr(<<"1","6","8","9","4","8","e","-","1">>)}]

\* the mappings check_single is given, each without its absent fields
AnomalyDocs ==
    {[k \in {f \in DOMAIN all : all[f] # Absent} |-> all[k]] :
        all \in [tarif_daya : AnomalyValues.tarif_daya,
                 stand_meter_awal : AnomalyValues.stand_meter_awal,
                 stand_meter_akhir : AnomalyValues.stand_meter_akhir,
                 pemakaian_kwh : AnomalyValues.pemakaian_kwh,
                 biaya_listrik : AnomalyValues.biaya_listrik]}

AnomInit ==
    /\ pdf_fields \in AnomalyDocs
    /\ excel_df = <<>>
    /\ use_ml = TRUE
    /\ scorer_trained = FALSE
    /\ ret = NoCall
    /\ match_log = <<>>
    /\ NormIdle
    /\ SimIdle
    /\ ScorerIdle

\* AnomalyDetector().check_single(fields)
CheckSingleCall ==
    /\ ret = NoCall
    /\ ret' = [call |-> "check_single", flags |-> check_single(pdf_fields)]
    /\ UNCHANGED <<pdf_fields, excel_df, use_ml, scorer_trained, match_log,
                   scorerVars, normVars, simVars>>

SpecAnom == AnomInit /\ [][CheckSingleCall]_vars

----------------------------------------------------------------------------
(* One ConfidenceScorer called from one thread or from two                  *)
(* (ml/confidence_scorer.py).  A call is a series of steps between which    *)
(* another thread may run: the test of _trained, the fit of the scaler and  *)
(* the transform that follows it in fit_transform, the fit of the model,    *)
(* the assignment of _trained, and the reads of the scaler and the model,   *)
(* each read a step of its own.                                             *)

MaxCalls == 3

\* what a call on a bare scorer leaves alone
restVars == <<pdf_fields, excel_df, use_ml, match_log, normVars, simVars>>

\* what a read of the scaler or the model by thread t can find.  The scaler
\* and the model are objects of the scikit-learn library; a fit gives the
\* object its fitted attributes and a read of an object without them raises
\* NotFittedError.  A read while another thread is fitting the object is a
\* data race: it finds the attributes of the old fit, of the new one, or
\* none, so it returns a value ("fitted") or raises ("unfitted")
ReadOutcomes(object, t) ==
    IF object.fitting \ {t} # {} THEN {"fitted", "unfitted"}
    ELSE IF object.fit THEN {"fitted"}
    ELSE {"unfitted"}

\* the thread after a read, which raises NotFittedError on unfitted attributes
AfterRead(th, object, t, outcome, next_pc) ==
    [th EXCEPT !.raced = @ \/ (object.fitting \ {t} # {}),
               !.unfitted_read = @ \/ (outcome = "unfitted"),
               !.pc = IF outcome = "unfitted" THEN "idle" ELSE next_pc,
               !.calls = IF outcome = "unfitted" \/ next_pc = "idle"
                         THEN @ + 1 ELSE @]

\* scorer.score(features), scorer.explain() or scorer.train() is called:
\* score() and explain() start with the test of _trained, train() with the
\* fit of the scaler
Call(t, ops) ==
    /\ threads[t].pc = "idle"
    /\ threads[t].calls < MaxCalls
    /\ \E op \in ops :
          /\ threads' = [threads EXCEPT ![t] =
                            IF op = "train"
                            THEN [@ EXCEPT !.pc = "train_scaler", !.op = op,
                                           !.entered = @ + 1]
                            ELSE [@ EXCEPT !.pc = "check", !.op = op]]
          /\ trainings' = (IF op = "train" THEN trainings + 1 ELSE trainings)
    /\ UNCHANGED <<scorer_trained, fits, ret, restVars>>

\* a variant of CheckTrained that skips train() while another thread is in it
CheckTrainedGuarded(t) ==
    /\ threads[t].pc = "check"
    /\ IF scorer_trained
          \/ \E u \in Threads \ {t} :
                 threads[u].pc \in {"train_scaler", "fitting_scaler", "train_transform",
                                    "train_model", "fitting_model", "set_flag"}
       THEN /\ threads' = [threads EXCEPT ![t] = [@ EXCEPT !.pc = "use"]]
            /\ UNCHANGED trainings
       ELSE /\ threads' = [threads EXCEPT ![t] =
                              [@ EXCEPT !.pc = "train_scaler", !.entered = @ + 1]]
            /\ trainings' = trainings + 1
    /\ UNCHANGED <<scorer_trained, fits, ret, restVars>>

\* if not self._trained: self.train()
CheckTrained(t) ==
    /\ threads[t].pc = "check"
    /\ IF scorer_trained
       THEN /\ threads' = [threads EXCEPT ![t] = [@ EXCEPT !.pc = "use"]]
            /\ UNCHANGED trainings
       ELSE /\ threads' = [threads EXCEPT ![t] =
                              [@ EXCEPT !.pc = "train_scaler", !.entered = @ + 1]]
            /\ trainings' = trainings + 1
    /\ UNCHANGED <<scorer_trained, fits, ret, restVars>>

\* train(): the fit of self.scaler.fit_transform(X), or self.model.fit(X_scaled, y),
\* starts and discards the old fit of that part
BeginFit(t, part, at, to) ==
    /\ threads[t].pc = at
    /\ fits' = [fits EXCEPT ![part].fitting = @ \cup {t}]
    /\ threads' = [threads EXCEPT ![t] = [@ EXCEPT !.pc = to]]
    /\ UNCHANGED <<scorer_trained, trainings, ret, restVars>>

\* train(): the fit of that part returns
EndFit(t, part, at, to) ==
    /\ threads[t].pc = at
    /\ fits' = [fits EXCEPT ![part] = [fit |-> TRUE, fitting |-> @.fitting \ {t}]]
    /\ threads' = [threads EXCEPT ![t] = [@ EXCEPT !.pc = to]]
    /\ UNCHANGED <<scorer_trained, trainings, ret, restVars>>

\* train(): the transform of self.scaler.fit_transform(X) reads the scaler
\* that was just fitted; if another thread has begun to fit it again the read
\* may raise, and train() ends with _trained as it was
TrainTransform(t) ==
    /\ threads[t].pc = "train_transform"
    /\ \E outcome \in ReadOutcomes(fits.scaler, t) :
          /\ threads' = [threads EXCEPT ![t] =
                            AfterRead(@, fits.scaler, t, outcome, "train_model")]
          /\ ret' = IF outcome = "unfitted" THEN [call |-> threads[t].op, raised |-> TRUE] ELSE ret
    /\ UNCHANGED <<scorer_trained, trainings, fits, restVars>>

\* a variant of SetTrained that leaves the flag as it is
SetTrainedForgets(t) ==
    /\ threads[t].pc = "set_flag"
    /\ threads' = [threads EXCEPT ![t] = [@ EXCEPT !.pc = "train_report"]]
    /\ UNCHANGED <<scorer_trained, trainings, fits, ret, restVars>>

\* train(): self._trained = True
SetTrained(t) ==
    /\ threads[t].pc = "set_flag"
    /\ scorer_trained' = TRUE
    /\ threads' = [threads EXCEPT ![t] = [@ EXCEPT !.pc = "train_report"]]
    /\ UNCHANGED <<trainings, fits, ret, restVars>>

\* train(): importances = self.model.feature_importances_
TrainReport(t) ==
    /\ threads[t].pc = "train_report"
    /\ \E outcome \in ReadOutcomes(fits.model, t) :
          /\ threads' = [threads EXCEPT ![t] =
                            AfterRead(@, fits.model, t, outcome, "train_accuracy")]
          /\ ret' = IF outcome = "unfitted" THEN [call |-> threads[t].op, raised |-> TRUE] ELSE ret
    /\ UNCHANGED <<scorer_trained, trainings, fits, restVars>>

\* train(): train_acc = self.model.score(X_scaled, y), then the report is
\* returned; a train() that score() or explain() made returns into that call,
\* one called from outside returns its report
TrainAccuracy(t) ==
    /\ threads[t].pc = "train_accuracy"
    /\ \E outcome \in ReadOutcomes(fits.model, t) :
          /\ threads' = [threads EXCEPT ![t] =
                            AfterRead(@, fits.model, t, outcome,
                                      IF threads[t].op = "train" THEN "idle" ELSE "use")]
          /\ ret' = IF outcome = "unfitted" THEN [call |-> threads[t].op, raised |-> TRUE]
                    ELSE IF threads[t].op = "train" THEN [call |-> "train", raised |-> FALSE]
                    ELSE ret
    /\ UNCHANGED <<scorer_trained, trainings, fits, restVars>>

\* score(): X_scaled = self.scaler.transform(X)
Transform(t) ==
    /\ threads[t].pc = "use"
    /\ threads[t].op = "score"
    /\ \E outcome \in ReadOutcomes(fits.scaler, t) :
          /\ threads' = [threads EXCEPT ![t] =
                            AfterRead(@, fits.scaler, t, outcome, "predict")]
          /\ ret' = IF outcome = "unfitted" THEN [call |-> "score", raised |-> TRUE] ELSE ret
    /\ UNCHANGED <<scorer_trained, trainings, fits, restVars>>

\* score(): probas = self.model.predict_proba(X_scaled)[0] and the
\* confidence rounded from it
Predict(t) ==
    /\ threads[t].pc = "predict"
    /\ \E outcome \in ReadOutcomes(fits.model, t), confidence \in ConfidenceLevels :
          /\ threads' = [threads EXCEPT ![t] =
                            [AfterRead(@, fits.model, t, outcome, "contributions")
                                EXCEPT !.confidence = IF outcome = "unfitted" THEN -1
                                                      ELSE confidence]]
          /\ ret' = IF outcome = "unfitted" THEN [call |-> "score", raised |-> TRUE] ELSE ret
    /\ UNCHANGED <<scorer_trained, trainings, fits, restVars>>

\* score(): the labels, then importances = self.model.feature_importances_
\* for the contributions, and the result is returned
Contributions(t) ==
    /\ threads[t].pc = "contributions"
    /\ \E outcome \in ReadOutcomes(fits.model, t) :
          /\ threads' = [threads EXCEPT ![t] =
                            [AfterRead(@, fits.model, t, outcome, "idle")
                                EXCEPT !.confidence = -1]]
          /\ ret' = IF outcome = "unfitted" THEN [call |-> "score", raised |-> TRUE]
                    ELSE [call |-> "score", raised |-> FALSE,
                          result |-> ConfidenceResult(threads[t].confidence)]
    /\ UNCHANGED <<scorer_trained, trainings, fits, restVars>>

\* explain(): the importances are read off the model
Explain(t) ==
    /\ threads[t].pc = "use"
    /\ threads[t].op = "explain"
    /\ \E outcome \in ReadOutcomes(fits.model, t) :
          /\ threads' = [threads EXCEPT ![t] =
                            AfterRead(@, fits.model, t, outcome, "idle")]
          /\ ret' = IF outcome = "unfitted" THEN [call |-> "explain", raised |-> TRUE]
                    ELSE [call |-> "explain", raised |-> FALSE]
    /\ UNCHANGED <<scorer_trained, trainings, fits, restVars>>

\* any step of any caller, whose calls are of the given methods
ScorerNext(ops) ==
    \E t \in Threads :
        \/ Call(t, ops)
        \/ CheckTrained(t)
        \/ BeginFit(t, "scaler", "train_scaler", "fitting_scaler")
        \/ EndFit(t, "scaler", "fitting_scaler", "train_transform")
        \/ TrainTransform(t)
        \/ BeginFit(t, "model", "train_model", "fitting_model")
        \/ EndFit(t, "model", "fitting_model", "set_flag")
        \/ SetTrained(t)
        \/ TrainReport(t)
        \/ TrainAccuracy(t)
        \/ Transform(t)
        \/ Predict(t)
        \/ Contributions(t)
        \/ Explain(t)

\* the callers share one scorer, fresh or with train() already called on it;
\* the variables of the engine are not used
ScorerInit(callers) ==
    /\ scorer_trained \in BOOLEAN
    /\ trainings = (IF scorer_trained THEN 1 ELSE 0)
    /\ fits = [scaler |-> [fit |-> scorer_trained, fitting |-> {}],
               model |-> [fit |-> scorer_trained, fitting |-> {}]]
    /\ threads = [t \in Threads |->
                     IF t \in callers THEN [OffThread EXCEPT !.pc = "idle"] ELSE OffThread]
    /\ pdf_fields = Doc(<<>>, Keys)
    /\ excel_df = <<>>
    /\ use_ml = TRUE
    /\ ret = NoCall
    /\ match_log = <<>>
    /\ NormIdle
    /\ SimIdle

\* one caller making score() and explain() calls
SpecScorerSeq == ScorerInit({1}) /\ [][ScorerNext({"score", "explain"})]_vars

\* two callers making score(), explain() and train() calls
SpecScorerThreads ==
    ScorerInit(Threads) /\ [][ScorerNext({"score", "explain", "train"})]_vars

----------------------------------------------------------------------------
(* One process that constructs engines and runs them                        *)

MaxTrainings == 2

\* CrosscheckEngine(pdf_fields, excel_df, use_ml): in ML mode a new
\* ConfidenceScorer is made and trained at once
Construct ==
    /\ \E doc \in DocPool, df \in {t \in Tables : Len(t) <= 1}, ml \in BOOLEAN :
          /\ ml => trainings < MaxTrainings
          /\ pdf_fields' = doc
          /\ excel_df' = df
          /\ use_ml' = ml
          /\ scorer_trained' = ml
          /\ trainings' = (IF ml THEN trainings + 1 ELSE trainings)
          /\ fits' = [scaler |-> [fit |-> ml, fitting |-> {}],
                      model |-> [fit |-> ml, fitting |-> {}]]
    /\ ret' = NoCall
    /\ match_log' = <<>>
    /\ UNCHANGED <<threads, normVars, simVars>>

\* the process after its first engine is constructed
ProcInit ==
    /\ pdf_fields \in DocPool
    /\ excel_df \in {t \in Tables : Len(t) <= 1}
    /\ use_ml \in BOOLEAN
    /\ scorer_trained = use_ml
    /\ trainings = (IF use_ml THEN 1 ELSE 0)
    /\ fits = [scaler |-> [fit |-> use_ml, fitting |-> {}],
               model |-> [fit |-> use_ml, fitting |-> {}]]
    /\ threads = [t \in Threads |-> OffThread]
    /\ ret = NoCall
    /\ match_log = <<>>
    /\ NormIdle
    /\ SimIdle

\* engines are constructed and run, one after the other
SpecProc == ProcInit /\ [][Construct \/ Run]_vars

----------------------------------------------------------------------------
(* The anomaly rules and the outlier model on a frame of reference rows     *)
(* (AnomalyDetector.check_batch).  The frame is a sequence of rows over one *)
(* set of columns; the labels IsolationForest.fit_predict gives the rows    *)
(* are inputs of the step.                                                   *)

MaxBatch == 5

\* a variant of check_batch that runs the outlier model on any frame that is
\* not empty
check_batchAlwaysFits(df, predictions) ==
    [idx0 \in 1..Len(df) |->
        LET row == df[idx0]
            col_map == [c \in {"Stand Meter Awal", "Stand Meter Akhir", "Pemakaian (kWh)",
                               "Biaya Listrik (Rp)", "Tarif/Daya"} \cap DOMAIN row |->
                           CHOOSE i \in 1..Len(COLUMN_TO_FIELD) : COLUMN_TO_FIELD[i][1] = c]
            fields == [k \in {COLUMN_TO_FIELD[col_map[c]][2] : c \in DOMAIN col_map} |->
                          row[COLUMN_TO_FIELD[KeyIndex(k)][1]]]
        IN  [row |-> row,
             anomaly_score |-> predictions[idx0],
             is_anomaly |-> (predictions[idx0] = -1),
             anomaly_flags |-> check_single(fields)]]

\* AnomalyDetector.check_batch(df): the rows of the returned frame, each the
\* input row with its anomaly_score, is_anomaly and anomaly_flags
check_batch(df, predictions) ==
    [idx0 \in 1..Len(df) |->
        LET row == df[idx0]
            feature_cols == {"Stand Meter Awal", "Stand Meter Akhir", "Pemakaian (kWh)",
                             "Biaya Listrik (Rp)"} \cap DOMAIN row
            fitted == Cardinality(feature_cols) >= 2 /\ Len(df) >= 5
            col_map == [c \in {"Stand Meter Awal", "Stand Meter Akhir", "Pemakaian (kWh)",
                               "Biaya Listrik (Rp)", "Tarif/Daya"} \cap DOMAIN row |->
                           CHOOSE i \in 1..Len(COLUMN_TO_FIELD) : COLUMN_TO_FIELD[i][1] = c]
            fields == [k \in {COLUMN_TO_FIELD[col_map[c]][2] : c \in DOMAIN col_map} |->
                          row[COLUMN_TO_FIELD[KeyIndex(k)][1]]]
        IN  [row |-> row,
             anomaly_score |-> IF fitted THEN predictions[idx0] ELSE 1,
             is_anomaly |-> (fitted /\ predictions[idx0] = -1),
             anomaly_flags |-> check_single(fields)]]

\* the frames check_batch is given: up to MaxBatch rows, each a consistent
\* record or one whose meter went backwards on no consumption, over all the
\* columns, over two numeric columns without the tariff, or over one numeric
\* column
BatchFrames ==
    {[i \in 1..Len(picks) |-> [c \in cols |-> picks[i][c]]] :
        picks \in SeqsUpTo(
            {Row(<<PyInt(53), PyStr(Texts.NameABCD), PyStr(Texts.AddrJalan),
                   PyStr(Texts.TarifR1), PyStr(Texts.MeterM1), PyInt(852),
                   PyStr(Texts.PeriodJan), PyInt(100), PyInt(350), PyInt(250),
                   PyInt(361000)>>),
             Row(<<PyInt(77), PyStr(Texts.NameAB), PyNaN, PyStr(Texts.TarifR1), PyNaN,
                   PyInt(0), PyNaN, PyInt(350), PyInt(100), PyInt(0), PyNaN>>)},
            MaxBatch),
        cols \in {Columns,
                  {"Pemakaian (kWh)", "Biaya Listrik (Rp)"},
                  {"ID Pelanggan", "Tarif/Daya", "Stand Meter Awal"}}}

BatchInit ==
    /\ excel_df \in BatchFrames
    /\ pdf_fields = Doc(<<>>, Keys)
    /\ use_ml = TRUE
    /\ scorer_trained = FALSE
    /\ ret = NoCall
    /\ match_log = <<>>
    /\ NormIdle
    /\ SimIdle
    /\ ScorerIdle

\* AnomalyDetector().check_batch(df)
CheckBatchCall ==
    /\ ret = NoCall
    /\ \E predictions \in [1..Len(excel_df) -> {-1, 1}] :
          ret' = [call |-> "check_batch", rows |-> check_batch(excel_df, predictions)]
    /\ UNCHANGED <<pdf_fields, excel_df, use_ml, scorer_trained, match_log,
                   scorerVars, normVars, simVars>>

SpecBatch == BatchInit /\ [][CheckBatchCall]_vars

----------------------------------------------------------------------------
(* Claims                                                                   *)

\* the score of p whole points
Points(p) == [n |-> p * ScoreScale, t |-> 0]

\* the highest score any candidate earns, 0 for an empty collection
HighestOf(S) ==
    IF S = {} THEN Points(0) ELSE CHOOSE m \in S : \A x \in S : ~ScoreLess(m, x)

HighestScore(pdf, df, ml) ==
    HighestOf({RowScore(pdf, df[i], ml) : i \in 1..Len(df)})

\* C1: the summary of run(), matched or not, has total_fields_checked equal
\* to total_match + total_mismatch + total_missing.
C1_SummaryCountsAddUp ==
    ret.call = "run" =>
        ret.summary.total_fields_checked
            = ret.summary.total_match + ret.summary.total_mismatch
                  + ret.summary.total_missing

\* a matched run() whose comparisons carry all three statuses
C1_Witness ==
    /\ ret.call = "run"
    /\ ret.matched_row # NoRow
    /\ ret.summary.total_match > 0
    /\ ret.summary.total_mismatch > 0
    /\ ret.summary.total_missing > 0

\* C2: the matcher selects a row exactly when the highest score over all
\* candidates is at least 3; otherwise (an empty collection included) it
\* returns no row, and run() reports the same choice.
C2_SelectedIffThreshold ==
    /\ ret.call = "_find_matching_row" =>
           (ret.matched_row # NoRow
               <=> ~ScoreLess(HighestScore(pdf_fields, excel_df, use_ml), Points(3)))
    /\ ret.call = "run" =>
           (ret.matched_row # NoRow
               <=> ~ScoreLess(HighestScore(pdf_fields, excel_df, use_ml), Points(3)))

\* a row selected with a best score of exactly 3
C2_Witness ==
    /\ ret.call = "_find_matching_row"
    /\ ret.best_score = Points(3)
    /\ ret.matched_row # NoRow

\* C3: the selected row earns the highest score, and no row before it earns
\* as much.
C3_FirstOfTheBest ==
    (ret.call = "_find_matching_row" /\ ret.matched_row # NoRow) =>
        /\ ret.scores[ret.matched_row + 1]
               = HighestScore(pdf_fields, excel_df, use_ml)
        /\ \A i \in 1..ret.matched_row :
               ScoreLess(ret.scores[i], ret.scores[ret.matched_row + 1])

\* two different rows tie at the highest score and the first is selected
C3_Witness ==
    /\ ret.call = "_find_matching_row"
    /\ ret.matched_row = 0
    /\ Len(excel_df) = 2
    /\ excel_df[1] # excel_df[2]
    /\ ret.scores[1] = ret.scores[2]

\* C4: when no candidate reaches the threshold, run() returns a result with
\* no matched row, one MISSING comparison per field of the fixed field set in
\* the fixed order, no match, no mismatch, every field counted missing and a
\* match percentage of 0.
C4_NoMatchAllMissing ==
    (ret.call = "run"
        /\ ScoreLess(HighestScore(pdf_fields, excel_df, use_ml), Points(3))) =>
        /\ ret.matched_row = NoRow
        /\ Len(ret.results) = Len(CROSSCHECK_FIELDS)
        /\ \A i \in 1..Len(ret.results) :
               /\ ret.results[i].field_name = CROSSCHECK_FIELDS[i]
               /\ ret.results[i].match_status = "MISSING"
        /\ ret.summary.total_match = 0
        /\ ret.summary.total_mismatch = 0
        /\ ret.summary.total_missing = ret.summary.total_fields_checked
        /\ ret.summary.total_fields_checked = Len(CROSSCHECK_FIELDS)
        /\ ret.summary.match_percentage = 0

\* run() on candidates that earn points, though fewer than 3, for a document
\* that has extracted values
C4_Witness ==
    /\ ret.call = "run"
    /\ ret.matched_row = NoRow
    /\ ScoreLess(Points(0), HighestScore(pdf_fields, excel_df, use_ml))
    /\ \E i \in 1..Len(ret.results) : ret.results[i].pdf_value # PyNone

\* p is x = 100 * matches / total rounded to one decimal, in tenths: no
\* other multiple of 0.1 is nearer to x
IsRoundedPercentage(p, matches, total) ==
    /\ 2 * (1000 * matches - p * total) <= total
    /\ 2 * (p * total - 1000 * matches) <= total

\* C5: match_percentage is 0 when no field was checked and otherwise
\* 100 * total_match / total_fields_checked rounded to one decimal, in run()
\* and in every entry of run_all_rows(); eleven MATCH verdicts out of eleven
\* give 100.0 and no mismatch.
C5_MatchPercentage ==
    /\ ret.call = "run" =>
           /\ IF ret.summary.total_fields_checked = 0
              THEN ret.summary.match_percentage = 0
              ELSE IsRoundedPercentage(ret.summary.match_percentage,
                                       ret.summary.total_match,
                                       ret.summary.total_fields_checked)
           /\ ret.summary.total_match = 11 =>
                  /\ ret.summary.match_percentage = 1000
                  /\ ret.summary.total_mismatch = 0
    /\ ret.call = "run_all_rows" =>
           \A i \in 1..Len(ret.rows) :
               /\ IF Len(ret.rows[i].results) = 0
                  THEN ret.rows[i].match_percentage = 0
                  ELSE IsRoundedPercentage(ret.rows[i].match_percentage,
                                           ret.rows[i].match_count,
                                           Len(ret.rows[i].results))
               /\ ret.rows[i].match_count = 11 =>
                      ret.rows[i].match_percentage = 1000

\* run_all_rows() with one row matching on all eleven fields and another
\* matching on some, so that the quotient is rounded
C5_Witness ==
    /\ ret.call = "run_all_rows"
    /\ \E i, j \in 1..Len(ret.rows) :
           /\ ret.rows[i].match_count = 11
           /\ ret.rows[j].match_count \in 1..10
           /\ (1000 * ret.rows[j].match_count) % 11 # 0

\* the candidate's name or address as the matcher reads it: str(cell)
CandidateText(row, column) == PyStr(py_str(py_get(row, column, EmptyStr)))

\* the points the four signals are stated to give a candidate, added as
\* doubles in the order stated
StatedPoints(pdf, row, ml) ==
    LET pdf_id     == _normalize_numeric(py_get(pdf, "id_pelanggan", EmptyStr))
        row_id     == _normalize_numeric(py_get(row, "ID Pelanggan", EmptyStr))
        pdf_meter  == _normalize(py_get(pdf, "nomor_meter", EmptyStr))
        row_meter  == _normalize(py_get(row, "Nomor Meter", EmptyStr))
        pdf_name   == py_get(pdf, "nama_pelanggan", EmptyStr)
        pdf_addr   == py_get(pdf, "alamat", EmptyStr)
        idPoints   == IF pdf_id # <<>> /\ pdf_id = row_id THEN 10 * ScoreScale ELSE 0
        meterPoints == IF pdf_meter # <<>> /\ pdf_meter = row_meter
                       THEN 5 * ScoreScale ELSE 0
        name_sim   == score(pdf_name, CandidateText(row, "Nama Pelanggan"))
        addr_sim   == score(pdf_addr, CandidateText(row, "Alamat"))
        namePoints == IF ml
                      THEN FloatRound(idPoints + meterPoints + 4 * name_sim,
                                      2 * FloatRound(name_sim, 0, 14).t, 13)
                      ELSE IF _fuzzy_contains(pdf_name, CandidateText(row, "Nama Pelanggan"))
                           THEN [n |-> idPoints + meterPoints + 3 * ScoreScale, t |-> 0]
                           ELSE [n |-> idPoints + meterPoints, t |-> 0]
    IN  IF ml
        THEN FloatRound(namePoints.n + 2 * addr_sim,
                        namePoints.t + FloatRound(addr_sim, 0, 14).t, 13)
        ELSE namePoints

\* C6: a candidate's score is +10 iff both IDs are non-empty and equal after
\* numeric normalisation, +5 iff both meter numbers are non-empty and equal
\* after text normalisation, for the name 4 x similarity with similarity
\* scoring on or a flat +3 for a contains match with it off, and for the
\* address 2 x similarity with similarity scoring on, nothing with it off.
C6_ScoreComposition ==
    ret.call = "_find_matching_row" =>
        \A i \in 1..Len(excel_df) :
            ret.scores[i] = StatedPoints(pdf_fields, excel_df[i], use_ml)

\* a candidate whose ID is written with other punctuation than the extracted
\* ID earns the ID points, and points from a name similarity short of 1
C6_Witness ==
    /\ ret.call = "_find_matching_row"
    /\ use_ml
    /\ \E i \in 1..Len(excel_df) :
           /\ py_str(py_get(pdf_fields, "id_pelanggan", EmptyStr))
                  # py_str(excel_df[i]["ID Pelanggan"])
           /\ ret.scores[i].n > 10 * ScoreScale
           /\ ret.scores[i].n < 14 * ScoreScale
           /\ score(py_get(pdf_fields, "nama_pelanggan", EmptyStr),
                    CandidateText(excel_df[i], "Nama Pelanggan")) \in 1..(ScoreScale - 1)

\* the entries run() adds in ML mode
MlKeys == {"ml_similarity", "ml_anomalies", "ml_confidence"}

\* C7 as stated: in ML mode every result of run() holds the similarity map,
\* the anomaly list and the confidence result.
C7_EveryMlResultHasMlEntries ==
    (ret.call = "run" /\ use_ml) => MlKeys \subseteq ret.keys

\* C7: in ML mode every result of run() for a matched record holds, next to
\* the matched row, the comparisons and the summary, a similarity entry for
\* the name and for the address, the anomaly list and the confidence result;
\* the result for no match holds the matched row, the comparisons and the
\* summary only, as every result does with ML off.
C7_MatchedMlResultHasMlEntries ==
    ret.call = "run" =>
        /\ {"matched_row", "results", "summary"} \subseteq ret.keys
        /\ (use_ml /\ ret.matched_row # NoRow) =>
               /\ MlKeys \subseteq ret.keys
               /\ DOMAIN ret.ml_similarity = {"nama_pelanggan", "alamat"}
               /\ \A k \in DOMAIN ret.ml_similarity :
                      /\ ret.ml_similarity[k].score \in 0..ScoreScale
                      /\ ret.ml_similarity[k].classification
                             \in {"EXACT", "HIGH", "MEDIUM", "LOW", "NO_MATCH"}
               /\ \A i \in 1..Len(ret.ml_anomalies) :
                      ret.ml_anomalies[i].severity \in {"CRITICAL", "WARNING"}
               /\ ret.ml_confidence.prediction \in {"VALID", "SUSPICIOUS"}
        /\ (~use_ml \/ ret.matched_row = NoRow) => ret.keys \cap MlKeys = {}

\* a matched ML result that carries anomaly flags
C7_Witness ==
    /\ ret.call = "run"
    /\ use_ml
    /\ ret.matched_row # NoRow
    /\ ret.ml_anomalies # <<>>
    /\ ret.ml_similarity.nama_pelanggan.score \in 1..(ScoreScale - 1)

\* C8: numeric normalisation is idempotent: normalising the result of a
\* normalisation returns it unchanged, for null, NaN, numbers and strings.
C8_NormalizeNumericIdempotent ==
    Len(norm_out) = 2 => norm_out[2] = norm_out[1]

\* C9 as stated: the score is symmetric, and the score of a non-empty text
\* with itself is 1.0.
C9_SymmetricAndOneOnNonEmpty ==
    Len(sim_out) = 3 =>
        /\ sim_out[1] = sim_out[2]
        /\ sim_a.s # <<>> => sim_out[3] = ScoreScale

\* C9: the score is symmetric, and the score of a text with itself is 1.0
\* when its normalised form is non-empty and 0.0 when it is empty.
C9_SymmetricAndOneOnNormalizedNonEmpty ==
    Len(sim_out) = 3 =>
        /\ sim_out[1] = sim_out[2]
        /\ sim_out[3] = IF _normalize_text(sim_a) # <<>> THEN ScoreScale ELSE 0

\* two different texts with a similarity strictly between 0 and 1, scored
\* both ways round
C9_Witness ==
    /\ Len(sim_out) = 3
    /\ _normalize_text(sim_a) # _normalize_text(sim_b)
    /\ sim_out[1] \in 1..(ScoreScale - 1)
    /\ sim_out[3] = ScoreScale

\* the row and the best score the matcher is stated to return: the highest
\* of the points stated for the candidates, and the first row that earns them
\* if they are at least 3
StatedSelection(pdf, df, ml) ==
    LET points == [i \in 1..Len(df) |-> StatedPoints(pdf, df[i], ml)]
        top    == HighestOf({points[i] : i \in 1..Len(df)})
    IN  [best_score |-> top,
         matched_row |-> IF ScoreLess(top, Points(3)) THEN NoRow
                         ELSE (CHOOSE i \in 1..Len(df) :
                                   /\ points[i] = top
                                   /\ \A j \in 1..(i - 1) : points[j] # top) - 1]

\* C10: every run of the matcher, the first and the one after it, returns
\* the row and the best score stated for the extracted fields and the
\* candidates the engine holds, so that two runs return the same; and the
\* inputs each run read are those the engine still holds after it, so that
\* the first run hands the second its own inputs.
C10_MatchingIdempotent ==
    match_log # <<>> =>
        LET stated == StatedSelection(pdf_fields, excel_df, use_ml)
        IN  \A i \in 1..Len(match_log) :
                /\ match_log[i].pdf_fields = pdf_fields
                /\ match_log[i].excel_df = excel_df
                /\ match_log[i].matched_row = stated.matched_row
                /\ match_log[i].best_score = stated.best_score
                /\ \A j \in 1..Len(match_log) :
                       /\ match_log[j].matched_row = match_log[i].matched_row
                       /\ match_log[j].best_score = match_log[i].best_score

\* two runs in a row that selected a row
C10_Witness ==
    /\ Len(match_log) = 2
    /\ match_log[2].matched_row # NoRow
    /\ ScoreLess(Points(0), match_log[2].best_score)

\* the flags check_single returned that carry the given field and message
FlagsWith(field, message) ==
    {i \in 1..Len(ret.flags) :
        ret.flags[i].field = field /\ ret.flags[i].message = message}

\* C11 as stated: for a record with tariff "R1/1300" and a consumption of
\* 40 kWh, check_single emits a WARNING for unusually low consumption.
C11_LowConsumptionWarning ==
    (/\ ret.call = "check_single"
     /\ py_get(pdf_fields, "tarif_daya", EmptyStr) = PyStr(Texts.TarifR1)
     /\ py_get(pdf_fields, "pemakaian_kwh", PyNone)
            \in {PyStr(<<"4","0">>), PyStr(<<"4","0"," ","k","W","h">>)}) =>
        \E i \in FlagsWith("pemakaian_kwh", "Unusually LOW consumption for tariff") :
            ret.flags[i].severity = "WARNING"

\* C11: for a record with tariff "R1/1300" whose consumption parses,
\* check_single emits the WARNING for unusually low consumption exactly when
\* the consumption is below 40 kWh (half the lower bound 80): 39 kWh gives
\* the warning citing the range 80 - 500, 40 kWh gives no tariff-range flag.
C11_LowConsumptionBelowHalf ==
    (/\ ret.call = "check_single"
     /\ py_get(pdf_fields, "tarif_daya", EmptyStr) = PyStr(Texts.TarifR1)
     /\ _to_float(py_get(pdf_fields, "pemakaian_kwh", PyNone)).ok) =>
        LET usage == py_get(pdf_fields, "pemakaian_kwh", PyNone)
            kwh   == _to_float(usage)
            low   == FlagsWith("pemakaian_kwh", "Unusually LOW consumption for tariff")
            high  == FlagsWith("pemakaian_kwh", "Unusually HIGH consumption for tariff")
        IN  /\ low # {} <=> FloatLess(kwh, FloatOf(40))
            /\ \A i \in low : /\ ret.flags[i].severity = "WARNING"
                              /\ ret.flags[i].expected = <<80, 500>>
                              /\ ret.flags[i].actual = <<kwh>>
            /\ usage = PyStr(<<"3","9">>) => low # {}
            /\ usage \in {PyStr(<<"4","0">>), PyStr(<<"4","0"," ","k","W","h">>)} =>
                   low = {} /\ high = {}

\* tariff "R1/1300" with 39 kWh: the low-consumption warning is the only flag
C11_Witness ==
    /\ ret.call = "check_single"
    /\ py_get(pdf_fields, "tarif_daya", EmptyStr) = PyStr(Texts.TarifR1)
    /\ py_get(pdf_fields, "pemakaian_kwh", PyNone) = PyStr(<<"3","9">>)
    /\ Len(ret.flags) = 1
    /\ ret.flags[1].message = "Unusually LOW consumption for tariff"
    /\ ret.flags[1].severity = "WARNING"

\* C12: check_single emits the CRITICAL consumption-consistency flag exactly
\* when start reading, end reading and consumption all parse and
\* |(end - start) - consumption| > 1, with end - start as the expected value,
\* the readings being the doubles float() gives and the differences float
\* subtractions: end 15480 and start 15230 give no flag for consumption 250
\* and a flag citing 250 for consumption 280; end 2.2, start 1.2 and
\* consumption 0 give a flag citing 1.0000000000000002, the difference of
\* the two doubles.
C12_ConsumptionConsistency ==
    ret.call = "check_single" =>
        LET awal      == _to_float(py_get(pdf_fields, "stand_meter_awal", PyNone))
            akhir     == _to_float(py_get(pdf_fields, "stand_meter_akhir", PyNone))
            pemakaian == _to_float(py_get(pdf_fields, "pemakaian_kwh", PyNone))
            fired     == FlagsWith("pemakaian_kwh", "Pemakaian doesn't match meter difference")
            start15230 == py_get(pdf_fields, "stand_meter_awal", PyNone)
                              = PyStr(<<"1","5","2","3","0">>)
            end15480   == py_get(pdf_fields, "stand_meter_akhir", PyNone)
                              = PyStr(<<"1","5","4","8","0">>)
            usage      == py_get(pdf_fields, "pemakaian_kwh", PyNone)
            start1p2   == py_get(pdf_fields, "stand_meter_awal", PyNone)
                              = PyStr(<<"1","2","e","-","1">>)
            end2p2     == py_get(pdf_fields, "stand_meter_akhir", PyNone)
                              = PyStr(<<"2","2","e","-","1">>)
        IN  /\ fired # {} <=>
                   /\ awal.ok /\ akhir.ok /\ pemakaian.ok
                   /\ \/ FloatLess(FloatOf(1), FloatSub(FloatSub(akhir, awal), pemakaian))
                      \/ FloatLess(FloatOf(1), FloatSub(pemakaian, FloatSub(akhir, awal)))
            /\ Cardinality(fired) <= 1
            /\ \A i \in fired :
                   /\ ret.flags[i].severity = "CRITICAL"
                   /\ ret.flags[i].expected = <<FloatSub(akhir, awal)>>
            /\ (start15230 /\ end15480 /\ usage = PyStr(Texts.Text250)) => fired = {}
            /\ (start15230 /\ end15480 /\ usage = PyStr(Texts.Text280)) =>
                   \E i \in fired : ret.flags[i].expected = <<FloatOf(250)>>
            /\ (start1p2 /\ end2p2 /\ usage = PyStr(<<"0">>)) =>
                   \E i \in fired :
                       ret.flags[i].expected = <<FloatFin(1, <<1, 0, 0, 128>>, -52)>>

\* end 15480, start 15230 and consumption 280: the flag fires citing 250
C12_Witness ==
    /\ ret.call = "check_single"
    /\ py_get(pdf_fields, "stand_meter_awal", PyNone) = PyStr(<<"1","5","2","3","0">>)
    /\ py_get(pdf_fields, "stand_meter_akhir", PyNone) = PyStr(<<"1","5","4","8","0">>)
    /\ py_get(pdf_fields, "pemakaian_kwh", PyNone) = PyStr(Texts.Text280)
    /\ \E i \in 1..Len(ret.flags) :
           /\ ret.flags[i].severity = "CRITICAL"
           /\ ret.flags[i].field = "pemakaian_kwh"
           /\ ret.flags[i].expected = <<FloatOf(250)>>

\* C13: in every ConfidenceResult the prediction is VALID exactly when the
\* confidence is at least 60 and SUSPICIOUS otherwise, the risk tier is LOW
\* from 85 on, MEDIUM from 60 to below 85 and HIGH below 60, so that the
\* prediction is SUSPICIOUS exactly when the tier is HIGH.
C13_PredictionAndRiskTier ==
    (ret.call = "run" /\ "ml_confidence" \in ret.keys) =>
        LET c == ret.ml_confidence
        IN  /\ c.prediction \in {"VALID", "SUSPICIOUS"}
            /\ c.risk_level \in {"LOW", "MEDIUM", "HIGH"}
            /\ c.prediction = "VALID" <=> c.confidence_score >= 600
            /\ c.risk_level = "LOW" <=> c.confidence_score >= 850
            /\ c.risk_level = "MEDIUM" <=>
                   (c.confidence_score >= 600 /\ c.confidence_score < 850)
            /\ c.risk_level = "HIGH" <=> c.confidence_score < 600
            /\ c.prediction = "SUSPICIOUS" <=> c.risk_level = "HIGH"

\* a result whose confidence is exactly 60.0: VALID, at MEDIUM risk
C13_Witness ==
    /\ ret.call = "run"
    /\ "ml_confidence" \in ret.keys
    /\ ret.ml_confidence.confidence_score = 600
    /\ ret.ml_confidence.prediction = "VALID"
    /\ ret.ml_confidence.risk_level = "MEDIUM"

\* a thread's test of _trained sends it into train() exactly when it reads
\* the flag as false
CheckDecidesByFlag(t) ==
    (threads[t].pc = "check" /\ threads'[t].pc # "check") =>
        /\ (threads'[t].pc = "train_scaler") <=> ~scorer_trained
        /\ (trainings' = trainings + 1) <=> ~scorer_trained
        /\ trainings' \in {trainings, trainings + 1}

\* train() is entered by the test of _trained only
TrainOnlyFromCheck ==
    trainings' # trainings => \E t \in Threads : threads[t].pc = "check"

\* C14: in a sequential series of score() and explain() calls on one scorer,
\* train() is invoked exactly when a call finds the model untrained, hence at
\* most once; the trained flag never goes back to false; and no call reads an
\* unfitted scaler or model.
C14_LazyTrainingOnce ==
    /\ [](/\ trainings <= 1
          /\ \A t \in Threads : ~threads[t].unfitted_read /\ threads[t].entered <= 1
          /\ ret.call \in {"score", "explain"} => ~ret.raised
          /\ scorer_trained => fits.scaler.fit /\ fits.model.fit)
    /\ [][scorer_trained => scorer_trained']_vars
    /\ [][TrainOnlyFromCheck /\ \A t \in Threads : CheckDecidesByFlag(t)]_vars

\* the second call in a row on a scorer that the first call trained returns
\* a ConfidenceResult
C14_Witness ==
    /\ threads[1].calls >= 2
    /\ threads[1].entered = 1
    /\ threads[2].pc = "off"
    /\ trainings = 1
    /\ scorer_trained
    /\ ret.call = "score"
    /\ ~ret.raised

\* C15: across the engines a process constructs in ML mode and the run()
\* calls it makes, the classifier's training executes at most once.
C15_TrainedOncePerProcess == trainings <= 1

\* train() is entered by the test of _trained or by a call of train()
TrainFromCheckOrCall ==
    trainings' # trainings =>
        \E t \in Threads :
            \/ threads[t].pc = "check"
            \/ threads[t].pc = "idle" /\ threads'[t].op = "train"

\* C16: on a scorer shared by two threads the test of _trained and the
\* training are not atomic: whatever the other thread is doing, a thread that
\* reads the flag as false enters train(), so that both threads can train
\* and a fit can run while the other thread reads the scaler or the model;
\* a call raises only on a read that found an unfitted object, only a read
\* that races a fit finds one, the flag is set only after both objects were
\* fitted, and train() is entered by that test or by a call of train() only.
C16_CheckAndTrainNotAtomic ==
    /\ [](/\ \A t \in Threads : threads[t].unfitted_read => threads[t].raced
          /\ (ret # NoCall /\ ret.raised) => \E t \in Threads : threads[t].unfitted_read
          /\ scorer_trained => fits.scaler.fit /\ fits.model.fit)
    /\ [][TrainFromCheckOrCall /\ \A t \in Threads : CheckDecidesByFlag(t)]_vars

\* both threads, in score() calls, have entered train(), and one is fitting
\* the scaler after the other has transformed with it
C16_Witness ==
    \E t, u \in Threads :
        /\ t # u
        /\ threads[t].op = "score"
        /\ threads[u].op = "score"
        /\ threads[t].calls = 0
        /\ threads[u].calls = 0
        /\ trainings = 2
        /\ threads[t].entered = 1
        /\ threads[u].entered = 1
        /\ threads[u].pc = "fitting_scaler"
        /\ threads[t].pc = "predict"
        /\ threads[t].raced

\* C17: run_all_rows() returns one entry per reference row, in row order,
\* whatever the matcher would make of the row: the entry of the i-th row has
\* row_index i - 1 and row_number row_index + 1, one comparison per field of
\* COLUMN_TO_FIELD in its order, each against that row's cell, and
\* match_count equal to the number of MATCH among them; an empty template
\* gives an empty list.
C17_RunAllRowsOnePerRow ==
    ret.call = "run_all_rows" =>
        /\ Len(ret.rows) = Len(excel_df)
        /\ excel_df = <<>> => ret.rows = <<>>
        /\ \A i \in 1..Len(ret.rows) :
              /\ ret.rows[i].row_index = i - 1
              /\ ret.rows[i].row_number = ret.rows[i].row_index + 1
              /\ Len(ret.rows[i].results) = Len(COLUMN_TO_FIELD)
              /\ \A j \in 1..Len(COLUMN_TO_FIELD) :
                    /\ ret.rows[i].results[j].field_name = COLUMN_TO_FIELD[j][1]
                    /\ ret.rows[i].results[j].pdf_key = COLUMN_TO_FIELD[j][2]
                    /\ ret.rows[i].results[j].match_status \in {"MATCH", "MISMATCH", "MISSING"}
                    /\ ret.rows[i].results[j].excel_value # PyNone =>
                          ret.rows[i].results[j].excel_value.s
                              = py_str(excel_df[i][COLUMN_TO_FIELD[j][1]])
              /\ ret.rows[i].match_count
                    = Cardinality({j \in 1..Len(COLUMN_TO_FIELD) :
                                      ret.rows[i].results[j].match_status = "MATCH"})

\* two rows compared: the first earns no matching point and no MATCH, the
\* second agrees with the document on several fields
C17_Witness ==
    /\ ret.call = "run_all_rows"
    /\ Len(ret.rows) = 2
    /\ RowScore(pdf_fields, excel_df[1], use_ml) = Points(0)
    /\ ret.rows[1].match_count = 0
    /\ ret.rows[2].match_count >= 2
    /\ ret.rows[2].match_count < Len(COLUMN_TO_FIELD)

\* a raw value that holds nothing: None, NaN or the empty string
IsEmptyValue(v) == v.t \in {"None", "nan"} \/ (v.t = "str" /\ v.s = <<>>)

\* the comparisons run_all_rows() returned, each with the column, the raw
\* extracted value and the raw reference cell it was made from
Compared ==
    IF ret.call # "run_all_rows" THEN {}
    ELSE {[col |-> COLUMN_TO_FIELD[j][1],
           pdf |-> py_get(pdf_fields, COLUMN_TO_FIELD[j][2], PyNone),
           ref |-> excel_df[i][COLUMN_TO_FIELD[j][1]],
           res |-> ret.rows[i].results[j]] :
              i \in 1..Len(ret.rows), j \in 1..Len(COLUMN_TO_FIELD)}

BothPresent(c) == ~IsEmptyValue(c.pdf) /\ ~IsEmptyValue(c.ref)

\* C18: every comparison has one of the three statuses, and MISSING exactly
\* when the extracted value or the reference value is empty: both empty is
\* reported as such, then an empty extracted value, then an empty reference
\* value.
C18_MissingIffEmpty ==
    \A c \in Compared :
        /\ c.res.match_status \in {"MATCH", "MISMATCH", "MISSING"}
        /\ c.res.match_status = "MISSING" <=> ~BothPresent(c)
        /\ IsEmptyValue(c.pdf) /\ IsEmptyValue(c.ref) =>
              c.res.notes = <<"Both PDF and Excel values are empty">>
        /\ IsEmptyValue(c.pdf) /\ ~IsEmptyValue(c.ref) =>
              c.res.notes = <<"Not found in PDF document">>
        /\ ~IsEmptyValue(c.pdf) /\ IsEmptyValue(c.ref) =>
              c.res.notes = <<"Not found in Excel template">>

\* C19: a numeric field with both values present is MATCH exactly when the
\* two values are equal after numeric normalisation, and MISMATCH otherwise.
C19_NumericExactAfterNormalization ==
    \A c \in Compared :
        _is_numeric_field(c.col) /\ BothPresent(c) =>
            c.res.match_status
                = IF _normalize_numeric(c.pdf) = _normalize_numeric(c.ref)
                  THEN "MATCH" ELSE "MISMATCH"

\* C20: a non-numeric field with both values present is MATCH exactly when
\* the normalised strings are equal, or one is a substring of the other, or
\* similarity scoring is on, the field is the name or the address and the
\* similarity is at least 0.75; it is MISMATCH otherwise.
C20_TextMatchRules ==
    \A c \in Compared :
        ~_is_numeric_field(c.col) /\ BothPresent(c) =>
            c.res.match_status
                = IF \/ _normalize(c.pdf) = _normalize(c.ref)
                     \/ IsSubstring(_normalize(c.pdf), _normalize(c.ref))
                     \/ IsSubstring(_normalize(c.ref), _normalize(c.pdf))
                     \/ /\ use_ml
                        /\ c.col \in {"Nama Pelanggan", "Alamat"}
                        /\ score(PyStr(py_str(c.pdf)), PyStr(py_str(c.ref))) >= 7500
                  THEN "MATCH" ELSE "MISMATCH"

\* the number a raw value stands for: a numeric cell is its own number, a
\* text is read after numeric normalisation, nothing at all counts as 0
NumberOf(v) ==
    IF v.t \in {"int", "float"} THEN FloatOf(v.n)
    ELSE IF IsEmptyValue(v) \/ _normalize_numeric(v) = <<>> THEN FloatZero(1)
    ELSE py_float(_normalize_numeric(v))

\* the deviation the two numbers should give: |p - r| / r, no more than 1.0;
\* a text that is read as nan or as an infinity is no number
StatedDeviation(p, r) ==
    IF ~p.ok \/ ~r.ok \/ p.k # "fin" \/ r.k # "fin" THEN FloatDiv(FloatOf(1), FloatOf(2))
    ELSE IF r.m = <<>> THEN FloatZero(1)
    ELSE LET gap == IF FloatLess(p, r) THEN FloatSub(r, p) ELSE FloatSub(p, r)
         IN  IF FloatLess(FloatZero(1), r) /\ ~FloatLess(gap, r) THEN FloatOf(1)
             ELSE FloatDiv(gap, r)

\* a run() in ML mode that selected a row and built the classifier's features
ScoredRun == ret.call = "run" /\ "ml_confidence" \in ret.keys

\* C21: the meter and billing deviations handed to the classifier are
\* |pdf - reference| / reference capped at 1.0, computed on the numbers the
\* extracted value and the matched row's cell hold; 0.0 when the reference is
\* zero or absent; 0.5 when either value does not parse.
C21_DeviationRatios ==
    ScoredRun =>
        /\ ret.confidence_features.meter_deviation
               = StatedDeviation(
                     NumberOf(py_get(pdf_fields, "stand_meter_akhir", PyNone)),
                     NumberOf(excel_df[ret.matched_row + 1]["Stand Meter Akhir"]))
        /\ ret.confidence_features.billing_deviation
               = StatedDeviation(
                     NumberOf(py_get(pdf_fields, "biaya_listrik", PyNone)),
                     NumberOf(excel_df[ret.matched_row + 1]["Biaya Listrik (Rp)"]))

\* a float between 0.0 and 1.0
InUnitInterval(d) ==
    d.k = "fin" /\ ~FloatLess(d, FloatZero(1)) /\ ~FloatLess(FloatOf(1), d)

\* C28: the meter deviation and the billing deviation handed to the
\* classifier lie between 0.0 and 1.0.
C28_DeviationsInUnitInterval ==
    ScoredRun =>
        /\ InUnitInterval(ret.confidence_features.meter_deviation)
        /\ InUnitInterval(ret.confidence_features.billing_deviation)

\* the flags check_single returned that carry the given message
Fired(message) == {i \in 1..Len(ret.flags) : ret.flags[i].message = message}

\* the number check_single reads off a field of the record
Parsed(key) == _to_float(py_get(pdf_fields, key, PyNone))

\* x <= 0 on floats
NonPositive(x) == FloatLess(x, FloatZero(1)) \/ (x.k = "fin" /\ x.m = <<>>)

BackwardsMessage == "Stand meter akhir is LESS than stand meter awal (meter went backwards)"

\* C22: check_single emits the CRITICAL flag "meter went backwards" on
\* stand_meter_akhir exactly when both readings parse and the end reading is
\* below the start reading; equal readings give no flag on that field.
C22_MeterWentBackwards ==
    ret.call = "check_single" =>
        /\ Fired(BackwardsMessage) # {} <=>
              /\ Parsed("stand_meter_awal").ok
              /\ Parsed("stand_meter_akhir").ok
              /\ FloatLess(Parsed("stand_meter_akhir"), Parsed("stand_meter_awal"))
        /\ Cardinality(Fired(BackwardsMessage)) <= 1
        /\ \A i \in 1..Len(ret.flags) :
              ret.flags[i].field = "stand_meter_akhir" <=> i \in Fired(BackwardsMessage)
        /\ \A i \in Fired(BackwardsMessage) :
              /\ ret.flags[i].severity = "CRITICAL"
              /\ ret.flags[i].actual = <<Parsed("stand_meter_akhir")>>
        /\ (/\ py_get(pdf_fields, "stand_meter_awal", PyNone) = PyStr(<<"1","5","2","3","0">>)
            /\ py_get(pdf_fields, "stand_meter_akhir", PyNone) = PyStr(<<"1","5","2","3","0">>)) =>
              Fired(BackwardsMessage) = {}

\* start 15230 and end 100: the flag is raised, first of the flags
C22_Witness ==
    /\ ret.call = "check_single"
    /\ py_get(pdf_fields, "stand_meter_awal", PyNone) = PyStr(<<"1","5","2","3","0">>)
    /\ py_get(pdf_fields, "stand_meter_akhir", PyNone) = PyStr(Texts.Text100)
    /\ Fired(BackwardsMessage) = {1}
    /\ ret.flags[1].severity = "CRITICAL"

\* C23: the rules are evaluated independently: the WARNING "zero or negative
\* consumption" is emitted exactly when the consumption parses and is <= 0,
\* and the WARNING "zero or negative billing amount" exactly when the billed
\* amount parses and is <= 0, whatever other flags the record received.
C23_NonPositiveChecksIndependent ==
    ret.call = "check_single" =>
        /\ Fired("Zero or negative consumption") # {} <=>
              Parsed("pemakaian_kwh").ok /\ NonPositive(Parsed("pemakaian_kwh"))
        /\ Fired("Zero or negative billing amount") # {} <=>
              Parsed("biaya_listrik").ok /\ NonPositive(Parsed("biaya_listrik"))
        /\ \A i \in Fired("Zero or negative consumption") :
              ret.flags[i].severity = "WARNING" /\ ret.flags[i].field = "pemakaian_kwh"
        /\ \A i \in Fired("Zero or negative billing amount") :
              ret.flags[i].severity = "WARNING" /\ ret.flags[i].field = "biaya_listrik"

\* a record whose meter went backwards, whose consumption disagrees with the
\* readings and is unusually low, and which receives both non-positive
\* warnings as well
C23_Witness ==
    /\ ret.call = "check_single"
    /\ Len(ret.flags) = 5
    /\ Fired(BackwardsMessage) = {1}
    /\ Fired("Pemakaian doesn't match meter difference") = {2}
    /\ Fired("Unusually LOW consumption for tariff") = {3}
    /\ Fired("Zero or negative consumption") = {4}
    /\ Fired("Zero or negative billing amount") = {5}

\* C24: a numeric field that is absent or does not parse raises no flag and
\* skips the rules that read it; an absent or unknown tariff skips the
\* tariff-range and the billing-rate rule and leaves the other rules as they
\* are.
C24_NullFieldsSkipRules ==
    ret.call = "check_single" =>
        /\ (~Parsed("stand_meter_awal").ok \/ ~Parsed("stand_meter_akhir").ok) =>
              /\ Fired(BackwardsMessage) = {}
              /\ Fired("Pemakaian doesn't match meter difference") = {}
        /\ ~Parsed("pemakaian_kwh").ok =>
              /\ \A i \in 1..Len(ret.flags) : ret.flags[i].field # "pemakaian_kwh"
              /\ Fired("Billing rate deviates from expected rate") = {}
        /\ ~Parsed("biaya_listrik").ok =>
              \A i \in 1..Len(ret.flags) : ret.flags[i].field # "biaya_listrik"
        /\ (\A k \in {"stand_meter_awal", "stand_meter_akhir", "pemakaian_kwh",
                       "biaya_listrik"} : ~Parsed(k).ok) => ret.flags = <<>>
        /\ py_get(pdf_fields, "tarif_daya", Absent) \in {Absent, PyStr(<<"X","9">>)} =>
              /\ Fired("Unusually LOW consumption for tariff") = {}
              /\ Fired("Unusually HIGH consumption for tariff") = {}
              /\ Fired("Billing rate deviates from expected rate") = {}
              /\ Fired(BackwardsMessage) # {} <=>
                    /\ Parsed("stand_meter_awal").ok
                    /\ Parsed("stand_meter_akhir").ok
                    /\ FloatLess(Parsed("stand_meter_akhir"), Parsed("stand_meter_awal"))
              /\ Fired("Zero or negative consumption") # {} <=>
                    Parsed("pemakaian_kwh").ok /\ NonPositive(Parsed("pemakaian_kwh"))
              /\ Fired("Zero or negative billing amount") # {} <=>
                    Parsed("biaya_listrik").ok /\ NonPositive(Parsed("biaya_listrik"))

\* an unknown tariff, an unreadable consumption and no end reading: the only
\* flag is the one for the billed amount of 0
C24_Witness ==
    /\ ret.call = "check_single"
    /\ py_get(pdf_fields, "tarif_daya", Absent) = PyStr(<<"X","9">>)
    /\ py_get(pdf_fields, "pemakaian_kwh", Absent) = PyStr(Texts.TextBad)
    /\ "stand_meter_akhir" \notin DOMAIN pdf_fields
    /\ Len(ret.flags) = 1
    /\ ret.flags[1].message = "Zero or negative billing amount"

\* the record check_single reads off a row of the frame: the four numeric
\* columns and the tariff, as far as the frame has them
RecordOf(row) ==
    [k \in {COLUMN_TO_FIELD[i][2] :
               i \in {j \in 1..Len(COLUMN_TO_FIELD) :
                         /\ COLUMN_TO_FIELD[j][1] \in DOMAIN row
                         /\ COLUMN_TO_FIELD[j][2] \in
                               {"stand_meter_awal", "stand_meter_akhir", "pemakaian_kwh",
                                "biaya_listrik", "tarif_daya"}}} |->
        row[COLUMN_TO_FIELD[KeyIndex(k)][1]]]

\* the frame has at least 5 rows and at least 2 of the 4 numeric columns
OutlierModelRuns ==
    /\ Len(excel_df) >= 5
    /\ Cardinality({"Stand Meter Awal", "Stand Meter Akhir", "Pemakaian (kWh)",
                    "Biaya Listrik (Rp)"} \cap DOMAIN excel_df[1]) >= 2

\* C25: check_batch returns one row per input row, each holding the input
\* row and the flags check_single gives for its record; unless the frame has
\* at least 5 rows and 2 numeric feature columns every row has
\* anomaly_score 1 and is_anomaly false, otherwise the score is the outlier
\* model's label and is_anomaly says whether it is -1; the input frame stays
\* as it was.
C25_BatchThresholds ==
    /\ [](ret.call = "check_batch" =>
            /\ Len(ret.rows) = Len(excel_df)
            /\ \A i \in 1..Len(ret.rows) :
                  /\ ret.rows[i].row = excel_df[i]
                  /\ ret.rows[i].anomaly_flags = check_single(RecordOf(excel_df[i]))
                  /\ ret.rows[i].anomaly_score \in {-1, 1}
                  /\ ret.rows[i].is_anomaly <=> ret.rows[i].anomaly_score = -1
                  /\ ~OutlierModelRuns =>
                        ret.rows[i].anomaly_score = 1 /\ ~ret.rows[i].is_anomaly)
    /\ [][excel_df' = excel_df]_vars

\* four rows over all the columns: nothing is anomalous, and the second row
\* carries its rule flags
C25_Witness ==
    /\ ret.call = "check_batch"
    /\ Len(ret.rows) = 4
    /\ DOMAIN excel_df[1] = Columns
    /\ \A i \in 1..4 : ret.rows[i].anomaly_score = 1 /\ ~ret.rows[i].is_anomaly
    /\ ret.rows[1].anomaly_flags = <<>>
    /\ Len(ret.rows[2].anomaly_flags) >= 3

\* the candidates that earn the exact-ID signal: both IDs non-empty and equal
\* after numeric normalisation
IdCandidates ==
    {i \in 1..Len(excel_df) :
        LET pdf_id == _normalize_numeric(py_get(pdf_fields, "id_pelanggan", EmptyStr))
            row_id == _normalize_numeric(py_get(excel_df[i], "ID Pelanggan", EmptyStr))
        IN  pdf_id # <<>> /\ row_id # <<>> /\ pdf_id = row_id}

\* C26 as stated: if exactly one candidate has an exact ID match, the matcher
\* selects that candidate, whatever points the other candidates earn.
C26_IdMatchAlwaysSelected ==
    (ret.call = "_find_matching_row" /\ Cardinality(IdCandidates) = 1) =>
        ret.matched_row + 1 \in IdCandidates

\* C26: if exactly one candidate has an exact ID match, the matcher selects
\* some row; with similarity scoring off it is that candidate, the others
\* earning at most 5 + 3 points; with similarity scoring on it is that
\* candidate exactly when no other candidate's total exceeds its own or ties
\* it from an earlier row, the others earning up to 5 + 4 + 2 = 11 points.
C26_IdMatchSelectedUnlessOutscored ==
    (ret.call = "_find_matching_row" /\ Cardinality(IdCandidates) = 1) =>
        \A i \in IdCandidates :
            /\ ret.matched_row # NoRow
            /\ \A j \in (1..Len(excel_df)) \ {i} :
                   ~ScoreLess(Points(IF use_ml THEN 11 ELSE 8), ret.scores[j])
            /\ ~use_ml => ret.matched_row + 1 = i
            /\ use_ml =>
                   (ret.matched_row + 1 = i
                       <=> \A j \in (1..Len(excel_df)) \ {i} :
                              \/ ScoreLess(ret.scores[j], ret.scores[i])
                              \/ ret.scores[j] = ret.scores[i] /\ j > i)

\* similarity scoring off: the second candidate alone has the ID and is
\* selected although the first earned the meter and the name points
C26_Witness ==
    /\ ret.call = "_find_matching_row"
    /\ ~use_ml
    /\ IdCandidates = {2}
    /\ ret.scores[1] = Points(8)
    /\ ret.matched_row = 1

\* C27: whenever run() selects a record whose ID earned the exact-ID signal,
\* the "ID Pelanggan" comparison reported for that record has status MATCH.
C27_MatcherAndComparatorAgreeOnId ==
    (ret.call = "run" /\ ret.matched_row # NoRow
        /\ ret.matched_row + 1 \in IdCandidates) =>
        \A i \in 1..Len(ret.results) :
            ret.results[i].field_name = "ID Pelanggan" =>
                ret.results[i].match_status = "MATCH"

\* a record with the null values and empty cells among the given entries
\* replaced by the empty text
NullsAsEmpty(rec, entries) ==
    [k \in DOMAIN rec |->
        IF k \in entries /\ rec[k] \in {PyNone, PyNaN} THEN EmptyStr ELSE rec[k]]

\* C29: a name or address signal counts only when the extracted value and
\* the reference cell are both present: with a null on either side the
\* candidate's score is what it would be with that text empty, and the
\* similarity entry of run() is score 0.0 / NO_MATCH.
C29_NullTextEarnsNothing ==
    /\ ret.call = "_find_matching_row" =>
           \A i \in 1..Len(excel_df) :
               ret.scores[i]
                   = RowScore(NullsAsEmpty(pdf_fields, {"nama_pelanggan", "alamat"}),
                              NullsAsEmpty(excel_df[i], {"Nama Pelanggan", "Alamat"}),
                              use_ml)
    /\ ScoredRun =>
           \A k \in {"nama_pelanggan", "alamat"} :
               (\/ py_get(pdf_fields, k, PyNone) = PyNone
                \/ excel_df[ret.matched_row + 1][COLUMN_TO_FIELD[KeyIndex(k)][1]] \in {PyNone, PyNaN})
                   => ret.ml_similarity[k] = [score |-> 0, classification |-> "NO_MATCH"]

\* the match statuses of a list of comparisons, in order
Statuses(results) == [i \in 1..Len(results) |-> results[i].match_status]

\* C30: when run() selects row i, the match statuses of its results are
\* those of entry i of run_all_rows() on the same engine, and the summary's
\* total_match and match_percentage are that entry's match_count and
\* match_percentage; neither call changes the extracted fields or the
\* reference collection.
C30_RunAgreesWithRunAllRows ==
    /\ []((ret.call = "run" /\ ret.matched_row # NoRow) =>
            \E entry \in {run_all_rows(pdf_fields, excel_df, use_ml)[ret.matched_row + 1]} :
                /\ entry.row_index = ret.matched_row
                /\ Statuses(ret.results) = Statuses(entry.results)
                /\ ret.summary.total_match = entry.match_count
                /\ ret.summary.match_percentage = entry.match_percentage)
    /\ [][pdf_fields' = pdf_fields /\ excel_df' = excel_df]_vars

\* run() selected the second of two different rows, in ML mode, with
\* matching and mismatching fields, and the first row compares differently
C30_Witness ==
    /\ ret.call = "run"
    /\ use_ml
    /\ ret.matched_row = 1
    /\ ret.summary.total_match > 0
    /\ ret.summary.total_mismatch > 0
    /\ Statuses(CompareRow(pdf_fields, excel_df[1], use_ml)) # Statuses(ret.results)

====
